---- MODULE Spec2Model ----
(***************************************************************************)
(* Model of the access-key service (internal/server/data/access_key.go)    *)
(* and of the version-compatibility router (internal/server/routes.go).    *)
(*                                                                         *)
(* Strings are sequences of one-character strings, so that strings.Cut,    *)
(* len() and fmt.Sprintf concatenation are computed and not assumed.       *)
(* Times are naturals; 0 is Go's zero time.Time (IsZero), the clock        *)
(* starts at 1.  Identifiers (uid.ID) are naturals; 0 is the unset ID.     *)
(***************************************************************************)
EXTENDS Integers, Sequences, FiniteSets, TLC

VARIABLES
    access_keys,  \* the access_keys table: row i is the record with id = i
    now,          \* time.Now()
    ret,          \* what the last data-layer call returned
    pc,           \* per request task: position inside ValidateAccessKey
    held,         \* per request task: the record t loaded by GetAccessKey
    issued,       \* issued[i]: the credential string Create returned for key i
    versions,     \* API.versions: routeKey -> list of routeVersion
    resp,         \* the last request served and its response
    migrations,   \* API.migrations, in registration order
    rewrites,     \* the last call of includeRewritesFor and its result
    grants,       \* the grants table, in insertion order
    authz         \* the last call into package access and what it returned

keyVars == <<access_keys, now, ret, pc, held, issued>>
routerVars == <<versions, resp, migrations, rewrites>>
accessVars == <<grants, authz>>
vars == <<access_keys, now, ret, pc, held, issued, versions, resp,
          migrations, rewrites, grants, authz>>

-----------------------------------------------------------------------------
(* Bounds *)

MaxKeys == 2      \* rows the table may hold
MaxTime == 3      \* last instant of the clock
MaxGrants == 2    \* rows the grants table may hold
MaxMigrations == 3  \* migrations registered with the API

-----------------------------------------------------------------------------
(* Strings *)

Rep(c, n) == [i \in 1..n |-> c]

Alphabet == <<"0", "1", "2", "3", "4", "5", "6", "7", "8", "9",
              "a", "b", "c", "d", "e", "f", "g", "h", "s", "t",
              "u", "n", ".", "-">>

CharCode(c) == CHOOSE i \in 1..Len(Alphabet) : Alphabet[i] = c

\* strings.Cut(s, sep): split around the first occurrence of sep
Cut(s, sep) ==
    IF \E i \in 1..Len(s) : s[i] = sep
    THEN LET i == CHOOSE k \in 1..Len(s) :
                      s[k] = sep /\ \A j \in 1..(k - 1) : s[j] # sep
         IN  [before |-> SubSeq(s, 1, i - 1),
              after  |-> SubSeq(s, i + 1, Len(s)),
              found  |-> TRUE]
    ELSE [before |-> s, after |-> <<>>, found |-> FALSE]

-----------------------------------------------------------------------------
(* Errors: an error is its chain of wrapped errors, outermost first;       *)
(* nil is the empty chain and errors.Is is membership in the chain.        *)

NilErr == <<>>
ErrorsIs(err, target) == \E i \in 1..Len(err) : err[i] = target

ErrNotFound == "record not found"
ErrAccessKeyExpired == <<"access key expired">>
ErrAccessKeyDeadlineExceeded ==
    <<"extension deadline exceeded">> \o ErrAccessKeyExpired

-----------------------------------------------------------------------------
(* models.AccessKey *)

AccessKeyKeyLength == 3
AccessKeySecretLength == 4

\* a digest: 16-bit polynomial hash of the content, as 4 hex digits
RECURSIVE HashFold(_, _)
HashFold(s, acc) ==
    IF s = <<>> THEN acc
    ELSE HashFold(Tail(s), (acc * 31 + CharCode(Head(s))) % 65536)

HexDigits == <<"0", "1", "2", "3", "4", "5", "6", "7",
               "8", "9", "a", "b", "c", "d", "e", "f">>

secretChecksumPlain(secret) == secret

secretChecksum(secret) ==
    LET h == HashFold(secret, 7)
    IN  << HexDigits[(h \div 4096) + 1], HexDigits[((h \div 256) % 16) + 1],
           HexDigits[((h \div 16) % 16) + 1], HexDigits[(h % 16) + 1] >>

\* subtle.ConstantTimeCompare(x, y) == 1
ConstantTimeCompare(x, y) == x = y

TwelveHours == 12   \* time.Hour * 12, the clock counts hours

\* the columns of accessKeyTable; created_at and updated_at carry no
\* behaviour of the service and are left out of the rows
Columns == {"deleted_at", "expires_at", "extension", "extension_deadline",
            "id", "issued_for", "key_id", "name", "organization_id",
            "provider_id", "scopes", "secret_checksum"}

\* the zero models.AccessKey
ZeroAccessKey ==
    [ID |-> 0, KeyID |-> <<>>, Secret |-> <<>>, SecretChecksum |-> <<>>,
     Name |-> <<>>, IssuedFor |-> 0, ProviderID |-> 0, OrganizationID |-> 0,
     ExpiresAt |-> 0, Extension |-> 0, ExtensionDeadline |-> 0,
     DeletedAt |-> 0, Scopes |-> <<>>]

ValuesWithSecret(a) ==
    [deleted_at |-> a.DeletedAt, expires_at |-> a.ExpiresAt,
     extension |-> a.Extension, extension_deadline |-> a.ExtensionDeadline,
     id |-> a.ID, issued_for |-> a.IssuedFor, key_id |-> a.KeyID,
     name |-> a.Name, organization_id |-> a.OrganizationID,
     provider_id |-> a.ProviderID, scopes |-> a.Scopes,
     secret_checksum |-> a.Secret]

\* accessKeyTable.Values: the struct as a row
Values(a) ==
    [deleted_at |-> a.DeletedAt, expires_at |-> a.ExpiresAt,
     extension |-> a.Extension, extension_deadline |-> a.ExtensionDeadline,
     id |-> a.ID, issued_for |-> a.IssuedFor, key_id |-> a.KeyID,
     name |-> a.Name, organization_id |-> a.OrganizationID,
     provider_id |-> a.ProviderID, scopes |-> a.Scopes,
     secret_checksum |-> a.SecretChecksum]

\* accessKeyTable.ScanFields: a row as the struct; Secret is no column
ScanFields(r) ==
    [ZeroAccessKey EXCEPT
        !.DeletedAt = r.deleted_at, !.ExpiresAt = r.expires_at,
        !.Extension = r.extension, !.ExtensionDeadline = r.extension_deadline,
        !.ID = r.id, !.IssuedFor = r.issued_for, !.KeyID = r.key_id,
        !.Name = r.name, !.OrganizationID = r.organization_id,
        !.ProviderID = r.provider_id, !.Scopes = r.scopes,
        !.SecretChecksum = r.secret_checksum]

-----------------------------------------------------------------------------
(* The store behind data.GormTxn *)

\* the identities table: id -> name
IdentityIDs == {1}
IdentityName(id) == <<"u", "s", "e", "r", "a">>

\* uid.ID.String(): an injective rendering of the id
IDString(id) == <<Alphabet[(id % 10) + 1]>>

\* uid.New(): an id no row has
uidNew(tbl) == Len(tbl) + 1

\* insert: fills OrganizationID from the transaction and ID when unset,
\* and appends the row unless key_id breaks the unique index
insert(tbl, org, a) ==
    LET a1 == [a EXCEPT !.OrganizationID = org,
                        !.ID = IF a.ID = 0 THEN uidNew(tbl) ELSE a.ID]
    IN  IF \E i \in 1..Len(tbl) : tbl[i].key_id = a1.KeyID
        THEN [err |-> <<"unique constraint">>, tbl |-> tbl, key |-> a1]
        ELSE [err |-> NilErr, tbl |-> Append(tbl, Values(a1)), key |-> a1]

\* save: writes every column of the record to the row with its id
save(tbl, key) == [tbl EXCEPT ![key.ID] = Values(key)]

\* the rows a query on the model sees: the ones not soft-deleted
NotDeleted(tbl) == {i \in 1..Len(tbl) : tbl[i].deleted_at = 0}

-----------------------------------------------------------------------------
(* internal/server/data/access_key.go *)

CreateFail(tbl, accessKey, err) ==
    [err |-> err, body |-> <<>>, tbl |-> tbl, key |-> accessKey]

CreateInsert(tbl, org, a) ==
    LET ins == insert(tbl, org, a)
    IN  IF ins.err # NilErr
        THEN CreateFail(tbl, ins.key, ins.err)
        ELSE [err |-> NilErr, body |-> a.KeyID \o <<".">> \o a.Secret,
              tbl |-> ins.tbl, key |-> ins.key]

\* CreateAccessKey with a bug: only generated values are length-checked
CreateAccessKeyTrustsInput(tbl, org, accessKey, randKeyID, randSecret, t) ==
    IF accessKey.IssuedFor = 0
    THEN CreateFail(tbl, accessKey, <<"issusedFor is required">>)
    ELSE IF accessKey.ProviderID = 0
    THEN CreateFail(tbl, accessKey, <<"providerID is required">>)
    ELSE
    LET a1 == IF accessKey.KeyID = <<>>
              THEN [accessKey EXCEPT !.KeyID = randKeyID] ELSE accessKey
    IN
    IF accessKey.KeyID = <<>> /\ Len(a1.KeyID) # AccessKeyKeyLength
    THEN CreateFail(tbl, a1, <<"invalid key length">>)
    ELSE IF a1.Secret = <<>> /\ randSecret = <<>>
    THEN CreateFail(tbl, a1, <<"crypto rand">>)
    ELSE
    LET a2 == IF a1.Secret = <<>>
              THEN [a1 EXCEPT !.Secret = randSecret] ELSE a1
    IN
    IF accessKey.Secret = <<>> /\ Len(a2.Secret) # AccessKeySecretLength
    THEN CreateFail(tbl, a2, <<"invalid secret length">>)
    ELSE
    LET a3 == [a2 EXCEPT !.SecretChecksum = secretChecksum(a2.Secret)]
        a4 == IF a3.ExpiresAt = 0
              THEN [a3 EXCEPT !.ExpiresAt = t + TwelveHours] ELSE a3
    IN
    IF a4.Name = <<>>
    THEN LET a5 == IF a4.ID = 0 THEN [a4 EXCEPT !.ID = uidNew(tbl)] ELSE a4
         IN  IF a5.IssuedFor \notin IdentityIDs
             THEN CreateFail(tbl, a5, <<"key name from identity", ErrNotFound>>)
             ELSE CreateInsert(tbl, org,
                     [a5 EXCEPT !.Name = IdentityName(a5.IssuedFor)
                                         \o <<"-">> \o IDString(a5.ID)])
    ELSE CreateInsert(tbl, org, a4)

\* CreateAccessKey with a bug: the default name is the identity's name alone
CreateAccessKeyNameOnly(tbl, org, accessKey, randKeyID, randSecret, t) ==
    IF accessKey.IssuedFor = 0
    THEN CreateFail(tbl, accessKey, <<"issusedFor is required">>)
    ELSE IF accessKey.ProviderID = 0
    THEN CreateFail(tbl, accessKey, <<"providerID is required">>)
    ELSE
    LET a1 == IF accessKey.KeyID = <<>>
              THEN [accessKey EXCEPT !.KeyID = randKeyID] ELSE accessKey
    IN
    IF Len(a1.KeyID) # AccessKeyKeyLength
    THEN CreateFail(tbl, a1, <<"invalid key length">>)
    ELSE IF a1.Secret = <<>> /\ randSecret = <<>>
    THEN CreateFail(tbl, a1, <<"crypto rand">>)
    ELSE
    LET a2 == IF a1.Secret = <<>>
              THEN [a1 EXCEPT !.Secret = randSecret] ELSE a1
    IN
    IF Len(a2.Secret) # AccessKeySecretLength
    THEN CreateFail(tbl, a2, <<"invalid secret length">>)
    ELSE
    LET a3 == [a2 EXCEPT !.SecretChecksum = secretChecksum(a2.Secret)]
        a4 == IF a3.ExpiresAt = 0
              THEN [a3 EXCEPT !.ExpiresAt = t + TwelveHours] ELSE a3
    IN
    IF a4.Name = <<>>
    THEN LET a5 == IF a4.ID = 0 THEN [a4 EXCEPT !.ID = uidNew(tbl)] ELSE a4
         IN  IF a5.IssuedFor \notin IdentityIDs
             THEN CreateFail(tbl, a5, <<"key name from identity", ErrNotFound>>)
             ELSE CreateInsert(tbl, org,
                     [a5 EXCEPT !.Name = IdentityName(a5.IssuedFor)])
    ELSE CreateInsert(tbl, org, a4)

\* randKeyID is what generate.MathRandom returns, randSecret what
\* generate.CryptoRandom returns (<<>> when it fails), t is time.Now()
CreateAccessKey(tbl, org, accessKey, randKeyID, randSecret, t) ==
    IF accessKey.IssuedFor = 0
    THEN CreateFail(tbl, accessKey, <<"issusedFor is required">>)
    ELSE IF accessKey.ProviderID = 0
    THEN CreateFail(tbl, accessKey, <<"providerID is required">>)
    ELSE
    LET a1 == IF accessKey.KeyID = <<>>
              THEN [accessKey EXCEPT !.KeyID = randKeyID] ELSE accessKey
    IN
    IF Len(a1.KeyID) # AccessKeyKeyLength
    THEN CreateFail(tbl, a1, <<"invalid key length">>)
    ELSE IF a1.Secret = <<>> /\ randSecret = <<>>
    THEN CreateFail(tbl, a1, <<"crypto rand">>)
    ELSE
    LET a2 == IF a1.Secret = <<>>
              THEN [a1 EXCEPT !.Secret = randSecret] ELSE a1
    IN
    IF Len(a2.Secret) # AccessKeySecretLength
    THEN CreateFail(tbl, a2, <<"invalid secret length">>)
    ELSE
    LET a3 == [a2 EXCEPT !.SecretChecksum = secretChecksum(a2.Secret)]
        a4 == IF a3.ExpiresAt = 0
              THEN [a3 EXCEPT !.ExpiresAt = t + TwelveHours] ELSE a3
    IN
    IF a4.Name = <<>>
    THEN LET a5 == IF a4.ID = 0 THEN [a4 EXCEPT !.ID = uidNew(tbl)] ELSE a4
         IN  IF a5.IssuedFor \notin IdentityIDs
             THEN CreateFail(tbl, a5, <<"key name from identity", ErrNotFound>>)
             ELSE CreateInsert(tbl, org,
                     [a5 EXCEPT !.Name = IdentityName(a5.IssuedFor)
                                         \o <<"-">> \o IDString(a5.ID)])
    ELSE CreateInsert(tbl, org, a4)

\* SaveAccessKey with a bug: the checksum is recomputed from key.Secret
\* also when the record carries no secret
SaveAccessKeyRehash(tbl, key) ==
    save(tbl, [key EXCEPT !.SecretChecksum = secretChecksum(key.Secret)])

\* SaveAccessKey(db, key)
SaveAccessKey(tbl, key) ==
    save(tbl, IF key.Secret # <<>>
              THEN [key EXCEPT !.SecretChecksum = secretChecksum(key.Secret)]
              ELSE key)

\* GetAccessKey with a bug: the query also sees tombstoned rows
GetAccessKeyUnscoped(tbl, keyID) ==
    LET found == {i \in 1..Len(tbl) : tbl[i].key_id = keyID}
    IN  IF found = {}
        THEN [err |-> <<ErrNotFound>>, key |-> ZeroAccessKey]
        ELSE [err |-> NilErr,
              key |-> ScanFields(tbl[CHOOSE i \in found :
                                        \A j \in found : i <= j])]

\* GetAccessKey(tx, ByKeyID(keyID)): no organization_id in the query
GetAccessKey(tbl, keyID) ==
    LET found == {i \in NotDeleted(tbl) : tbl[i].key_id = keyID}
    IN  IF found = {}
        THEN [err |-> <<ErrNotFound>>, key |-> ZeroAccessKey]
        ELSE [err |-> NilErr,
              key |-> ScanFields(tbl[CHOOSE i \in found :
                                        \A j \in found : i <= j])]

DeleteAccessKeysNoTenant(tbl, org, opts, t) ==
    IF opts.ByID = 0 /\ opts.ByUserID = 0 /\ opts.ByProviderID = 0
    THEN [err |-> <<"DeleteAccessKeys requires an ID to delete">>, tbl |-> tbl]
    ELSE [err |-> NilErr,
          tbl |-> [i \in 1..Len(tbl) |->
                    IF (IF opts.ByID # 0 THEN tbl[i].id = opts.ByID
                        ELSE IF opts.ByUserID # 0
                        THEN tbl[i].issued_for = opts.ByUserID
                        ELSE tbl[i].provider_id = opts.ByProviderID)
                    THEN [tbl[i] EXCEPT !.deleted_at = t]
                    ELSE tbl[i]]]

\* DeleteAccessKeys with a bug: with no selector the WHERE clause is the
\* tenant alone
DeleteAccessKeysNoSelector(tbl, org, opts, t) ==
    [err |-> NilErr,
     tbl |-> [i \in 1..Len(tbl) |->
               IF (IF opts.ByID # 0 THEN tbl[i].id = opts.ByID
                   ELSE IF opts.ByUserID # 0
                   THEN tbl[i].issued_for = opts.ByUserID
                   ELSE IF opts.ByProviderID # 0
                   THEN tbl[i].provider_id = opts.ByProviderID
                   ELSE TRUE)
                  /\ tbl[i].organization_id = org
               THEN [tbl[i] EXCEPT !.deleted_at = t]
               ELSE tbl[i]]]

\* DeleteAccessKeys with a bug: every selector that is set takes part, a
\* row matching any of them is tombstoned
DeleteAccessKeysAnySelector(tbl, org, opts, t) ==
    IF opts.ByID = 0 /\ opts.ByUserID = 0 /\ opts.ByProviderID = 0
    THEN [err |-> <<"DeleteAccessKeys requires an ID to delete">>, tbl |-> tbl]
    ELSE [err |-> NilErr,
          tbl |-> [i \in 1..Len(tbl) |->
                    IF (\/ opts.ByID # 0 /\ tbl[i].id = opts.ByID
                        \/ opts.ByUserID # 0
                              /\ tbl[i].issued_for = opts.ByUserID
                        \/ opts.ByProviderID # 0
                              /\ tbl[i].provider_id = opts.ByProviderID)
                       /\ tbl[i].organization_id = org
                    THEN [tbl[i] EXCEPT !.deleted_at = t]
                    ELSE tbl[i]]]

\* org is tx.OrganizationID(), t is time.Now()
DeleteAccessKeys(tbl, org, opts, t) ==
    IF opts.ByID = 0 /\ opts.ByUserID = 0 /\ opts.ByProviderID = 0
    THEN [err |-> <<"DeleteAccessKeys requires an ID to delete">>, tbl |-> tbl]
    ELSE [err |-> NilErr,
          tbl |-> [i \in 1..Len(tbl) |->
                    IF (IF opts.ByID # 0 THEN tbl[i].id = opts.ByID
                        ELSE IF opts.ByUserID # 0
                        THEN tbl[i].issued_for = opts.ByUserID
                        ELSE tbl[i].provider_id = opts.ByProviderID)
                       /\ tbl[i].organization_id = org
                    THEN [tbl[i] EXCEPT !.deleted_at = t]
                    ELSE tbl[i]]]

ValidateFail(err) == [err |-> err, key |-> ZeroAccessKey, write |-> FALSE]

\* ValidateLoad with a bug: a key whose extension deadline is set is
\* checked against the deadline only, not against ExpiresAt
ValidateLoadDeadlineOnly(tbl, authnKey, t) ==
    LET c == Cut(authnKey, ".")
        g == GetAccessKey(tbl, c.before)
    IN  IF ~c.found
        THEN ValidateFail(<<"invalid access key format">>)
        ELSE IF g.err # NilErr
        THEN ValidateFail(
               <<"could not get access key from database, it may not exist">>
               \o g.err)
        ELSE IF ~ConstantTimeCompare(g.key.SecretChecksum,
                                     secretChecksum(c.after))
        THEN ValidateFail(<<"access key invalid secret">>)
        ELSE IF g.key.ExtensionDeadline # 0
        THEN IF t > g.key.ExtensionDeadline
             THEN ValidateFail(ErrAccessKeyDeadlineExceeded)
             ELSE [err |-> NilErr,
                   key |-> [g.key EXCEPT
                              !.ExtensionDeadline = t + g.key.Extension],
                   write |-> TRUE]
        ELSE IF t > g.key.ExpiresAt
        THEN ValidateFail(ErrAccessKeyExpired)
        ELSE [err |-> NilErr, key |-> g.key, write |-> FALSE]

\* ValidateLoad with a bug: the deadline slides from the stored deadline,
\* not from the time of the call
ValidateLoadSlideFromDeadline(tbl, authnKey, t) ==
    LET c == Cut(authnKey, ".")
        g == GetAccessKey(tbl, c.before)
    IN  IF ~c.found
        THEN ValidateFail(<<"invalid access key format">>)
        ELSE IF g.err # NilErr
        THEN ValidateFail(
               <<"could not get access key from database, it may not exist">>
               \o g.err)
        ELSE IF ~ConstantTimeCompare(g.key.SecretChecksum,
                                     secretChecksum(c.after))
        THEN ValidateFail(<<"access key invalid secret">>)
        ELSE IF t > g.key.ExpiresAt
        THEN ValidateFail(ErrAccessKeyExpired)
        ELSE IF g.key.ExtensionDeadline # 0
        THEN IF t > g.key.ExtensionDeadline
             THEN ValidateFail(ErrAccessKeyDeadlineExceeded)
             ELSE [err |-> NilErr,
                   key |-> [g.key EXCEPT
                              !.ExtensionDeadline =
                                  g.key.ExtensionDeadline + g.key.Extension],
                   write |-> TRUE]
        ELSE [err |-> NilErr, key |-> g.key, write |-> FALSE]

\* strings.LastIndex in place of strings.Cut: the split at the last sep
CutLast(str, sep) ==
    LET at == { i \in 1..Len(str) : str[i] = sep }
    IN  IF at = {} THEN [before |-> str, after |-> <<>>, found |-> FALSE]
        ELSE LET i == CHOOSE k \in at : \A j \in at : j <= k
             IN  [before |-> SubSeq(str, 1, i - 1),
                  after |-> SubSeq(str, i + 1, Len(str)), found |-> TRUE]

\* ValidateLoad with a bug: the credential is split at its last dot
ValidateLoadLastDot(tbl, authnKey, t) ==
    LET c == CutLast(authnKey, ".")
        g == GetAccessKey(tbl, c.before)
    IN  IF ~c.found
        THEN ValidateFail(<<"invalid access key format">>)
        ELSE IF g.err # NilErr
        THEN ValidateFail(
               <<"could not get access key from database, it may not exist">>
               \o g.err)
        ELSE IF ~ConstantTimeCompare(g.key.SecretChecksum,
                                     secretChecksum(c.after))
        THEN ValidateFail(<<"access key invalid secret">>)
        ELSE IF t > g.key.ExpiresAt
        THEN ValidateFail(ErrAccessKeyExpired)
        ELSE IF g.key.ExtensionDeadline # 0
        THEN IF t > g.key.ExtensionDeadline
             THEN ValidateFail(ErrAccessKeyDeadlineExceeded)
             ELSE [err |-> NilErr,
                   key |-> [g.key EXCEPT
                              !.ExtensionDeadline = t + g.key.Extension],
                   write |-> TRUE]
        ELSE [err |-> NilErr, key |-> g.key, write |-> FALSE]

\* ValidateLoad with a bug: expiry is checked before the secret
ValidateLoadExpiryFirst(tbl, authnKey, t) ==
    LET c == Cut(authnKey, ".")
        g == GetAccessKey(tbl, c.before)
    IN  IF ~c.found
        THEN ValidateFail(<<"invalid access key format">>)
        ELSE IF g.err # NilErr
        THEN ValidateFail(
               <<"could not get access key from database, it may not exist">>
               \o g.err)
        ELSE IF t > g.key.ExpiresAt
        THEN ValidateFail(ErrAccessKeyExpired)
        ELSE IF ~ConstantTimeCompare(g.key.SecretChecksum,
                                     secretChecksum(c.after))
        THEN ValidateFail(<<"access key invalid secret">>)
        ELSE IF g.key.ExtensionDeadline # 0
        THEN IF t > g.key.ExtensionDeadline
             THEN ValidateFail(ErrAccessKeyDeadlineExceeded)
             ELSE [err |-> NilErr,
                   key |-> [g.key EXCEPT
                              !.ExtensionDeadline = t + g.key.Extension],
                   write |-> TRUE]
        ELSE [err |-> NilErr, key |-> g.key, write |-> FALSE]

\* ValidateLoad with a bug: the extension deadline is tested before
\* ExpiresAt
ValidateLoadDeadlineFirst(tbl, authnKey, t) ==
    LET c == Cut(authnKey, ".")
        g == GetAccessKey(tbl, c.before)
    IN  IF ~c.found
        THEN ValidateFail(<<"invalid access key format">>)
        ELSE IF g.err # NilErr
        THEN ValidateFail(
               <<"could not get access key from database, it may not exist">>
               \o g.err)
        ELSE IF ~ConstantTimeCompare(g.key.SecretChecksum,
                                     secretChecksum(c.after))
        THEN ValidateFail(<<"access key invalid secret">>)
        ELSE IF g.key.ExtensionDeadline # 0 /\ t > g.key.ExtensionDeadline
        THEN ValidateFail(ErrAccessKeyDeadlineExceeded)
        ELSE IF t > g.key.ExpiresAt
        THEN ValidateFail(ErrAccessKeyExpired)
        ELSE IF g.key.ExtensionDeadline # 0
        THEN [err |-> NilErr,
              key |-> [g.key EXCEPT
                         !.ExtensionDeadline = t + g.key.Extension],
              write |-> TRUE]
        ELSE [err |-> NilErr, key |-> g.key, write |-> FALSE]

\* ValidateAccessKey up to the call of SaveAccessKey (lines 162-187):
\* the checks, and the record t with the deadline slid; write says
\* whether SaveAccessKey follows
ValidateLoad(tbl, authnKey, t) ==
    LET c == Cut(authnKey, ".")
        g == GetAccessKey(tbl, c.before)
    IN  IF ~c.found
        THEN ValidateFail(<<"invalid access key format">>)
        ELSE IF g.err # NilErr
        THEN ValidateFail(
               <<"could not get access key from database, it may not exist">>
               \o g.err)
        ELSE IF ~ConstantTimeCompare(g.key.SecretChecksum,
                                     secretChecksum(c.after))
        THEN ValidateFail(<<"access key invalid secret">>)
        ELSE IF t > g.key.ExpiresAt
        THEN ValidateFail(ErrAccessKeyExpired)
        ELSE IF g.key.ExtensionDeadline # 0
        THEN IF t > g.key.ExtensionDeadline
             THEN ValidateFail(ErrAccessKeyDeadlineExceeded)
             ELSE [err |-> NilErr,
                   key |-> [g.key EXCEPT
                              !.ExtensionDeadline = t + g.key.Extension],
                   write |-> TRUE]
        ELSE [err |-> NilErr, key |-> g.key, write |-> FALSE]

\* ValidateAccessKey with a bug: the deadline is slid and saved before it
\* is tested, so a call that fails with the deadline error has written
ValidateAccessKeySlidesFirst(tbl, authnKey, t) ==
    LET v == ValidateLoad(tbl, authnKey, t)
        g == GetAccessKey(tbl, Cut(authnKey, ".").before)
    IN  [err |-> v.err, key |-> v.key,
         tbl |-> IF v.write \/ v.err = ErrAccessKeyDeadlineExceeded
                 THEN SaveAccessKey(tbl,
                        [g.key EXCEPT !.ExtensionDeadline = t + g.key.Extension])
                 ELSE tbl]

\* ValidateAccessKey run without interruption
ValidateAccessKey(tbl, authnKey, t) ==
    LET v == ValidateLoad(tbl, authnKey, t)
    IN  [err |-> v.err, key |-> v.key,
         tbl |-> IF v.write THEN SaveAccessKey(tbl, v.key) ELSE tbl]

-----------------------------------------------------------------------------
(* Inputs *)

KeyA == Rep("a", AccessKeyKeyLength)
KeyG == Rep("g", AccessKeyKeyLength)
KeyDot == <<"a", ".">> \o Rep("c", AccessKeyKeyLength - 2)
KeyShort == Rep("a", AccessKeyKeyLength - 1)
SecretS == Rep("s", AccessKeySecretLength)
SecretT == Rep("t", AccessKeySecretLength)
SecretShort == Rep("s", AccessKeySecretLength - 1)

\* what generate.MathRandom and generate.CryptoRandom may return
\* (alphanumeric, of the length asked for; CryptoRandom may fail)
RandomKeyIDs == {KeyG, KeyA}
RandomSecrets == {SecretT, <<>>}

\* a well-formed request for a key of identity 1 from provider 1, with
\* a generated key-id
PlainKey ==
    [ZeroAccessKey EXCEPT !.IssuedFor = 1, !.ProviderID = 1,
                          !.Secret = SecretS, !.Name = <<"n">>]

\* the credential strings ValidateAccessKey is called with
Credentials ==
    { k \o <<".">> \o s : k \in {KeyA, KeyG, KeyDot}, s \in {SecretS, SecretT} }
    \cup { KeyA \o SecretS }

\* Lifecycle inputs: every combination of expiry, extension and deadline
LifecycleCreates(t) ==
    { [PlainKey EXCEPT !.ExpiresAt = e, !.Extension = x,
                       !.ExtensionDeadline = d] :
        e \in {0, t + 1}, x \in {0, 1}, d \in {0, t + 1} }

\* Issuance inputs: every combination of supplied or generated key-id and
\* secret, name, expiry and deadline, and one request per rejected field
IssuanceCreates(t) ==
    { [PlainKey EXCEPT !.KeyID = k, !.Secret = s, !.Name = n, !.Extension = 1,
                       !.ExpiresAt = e, !.ExtensionDeadline = d] :
        k \in {<<>>, KeyA, KeyDot}, s \in {<<>>, SecretS},
        n \in {<<>>, <<"n">>}, e \in {0, t + 1}, d \in {0, t + 1} }
    \cup { [PlainKey EXCEPT !.IssuedFor = 0],
           [PlainKey EXCEPT !.ProviderID = 0],
           [PlainKey EXCEPT !.KeyID = KeyShort],
           [PlainKey EXCEPT !.Secret = SecretShort],
           [PlainKey EXCEPT !.IssuedFor = 2, !.Name = <<>>] }

\* Revocation inputs: keys of two tenants, two identities and two
\* providers, and every selector combination of DeleteAccessKeysOptions
RevocationCreates ==
    { [PlainKey EXCEPT !.IssuedFor = u, !.ProviderID = p] :
        u \in {1, 2}, p \in {1, 2} }

RevocationDeletes == [ByID : 0..2, ByUserID : 0..2, ByProviderID : 0..2]

\* Race inputs: keys with an extension deadline, validated with their
\* own credential by two request tasks
RaceCreates(t) ==
    { [PlainKey EXCEPT !.ExtensionDeadline = t + 1, !.Extension = x] :
        x \in {1, 2} }

RaceCredentials == { k \o <<".">> \o SecretS : k \in {KeyA, KeyG} }

\* Format inputs: keys whose secret holds a dot or none, and credential
\* strings with no dot, one dot and several dots
SecretDot == <<"s", ".">> \o Rep("s", AccessKeySecretLength - 2)

FormatCreates(t) ==
    { [PlainKey EXCEPT !.KeyID = k, !.Secret = x, !.Extension = 1,
                       !.ExtensionDeadline = d] :
        k \in {KeyA, KeyG}, x \in {SecretS, SecretDot}, d \in {0, t + 1} }

FormatCredentials ==
    { k \o <<".">> \o x : k \in {KeyA, KeyG}, x \in {SecretS, SecretDot} }
    \cup { <<>>, KeyA, KeyA \o SecretS, KeyA \o <<".">>, <<".">> \o SecretS,
           KeyA \o <<".">> \o SecretS \o <<".">> }

\* Lapse inputs: keys with an extension deadline, with and without an
\* expiry of their own, whose extension is zero or one hour
LapseCreates(t) ==
    { [PlainKey EXCEPT !.ExpiresAt = e, !.Extension = x,
                       !.ExtensionDeadline = t + 1] :
        e \in {0, t + 1}, x \in {0, 1} }

\* the credentials of the keys, and one with a wrong secret
LapseCredentials ==
    { k \o <<".">> \o SecretS : k \in {KeyA, KeyG} }
    \cup { KeyA \o <<".">> \o SecretT }

LifecycleDeletes == { [ByID |-> i, ByUserID |-> 0, ByProviderID |-> 0] : i \in 0..1 }

-----------------------------------------------------------------------------
(* internal/server/routes.go: the version-compatibility router *)

StatusOK == 200
StatusCreated == 201
StatusNoContent == 204
StatusBadRequest == 400
StatusNotFound == 404
StatusInternalServerError == 500

ErrBadRequest == "bad request"

\* a semantic version is <<major, minor, patch>>
SemverGreaterThan(v, w) ==
    \/ v[1] > w[1]
    \/ v[1] = w[1] /\ v[2] > w[2]
    \/ v[1] = w[1] /\ v[2] = w[2] /\ v[3] > w[3]

IsDigit(c) == \E i \in 1..10 : Alphabet[i] = c

\* the number a string of digits writes
RECURSIVE Atoi(_, _)
Atoi(s, acc) ==
    IF s = <<>> THEN acc
    ELSE Atoi(Tail(s), acc * 10 + (CharCode(Head(s)) - 1))

\* the string a number is written as
RECURSIVE Itoa(_)
Itoa(n) ==
    IF n < 10 THEN <<Alphabet[n + 1]>>
    ELSE Itoa(n \div 10) \o <<Alphabet[(n % 10) + 1]>>

\* the dot-separated parts of a string
RECURSIVE Split(_)
Split(s) ==
    LET c == Cut(s, ".")
    IN  IF c.found THEN <<c.before>> \o Split(c.after) ELSE <<s>>

\* semver.NewVersion on strings without pre-release or build metadata:
\* an optional "v", then one to three dot-separated numbers
NewVersion(str) ==
    LET body  == IF str # <<>> /\ Head(str) = "v" THEN Tail(str) ELSE str
        parts == Split(body)
        wellFormed ==
            /\ Len(parts) \in 1..3
            /\ \A i \in 1..Len(parts) :
                 /\ parts[i] # <<>>
                 /\ \A j \in 1..Len(parts[i]) : IsDigit(parts[i][j])
    IN  IF wellFormed
        THEN [err |-> NilErr,
              version |-> [i \in 1..3 |->
                             IF i <= Len(parts) THEN Atoi(parts[i], 0) ELSE 0]]
        ELSE [err |-> <<"Invalid Semantic Version">>, version |-> <<0, 0, 0>>]

\* the header value a client sends to declare version v
VersionString(v) == Itoa(v[1]) \o <<".">> \o Itoa(v[2]) \o <<".">> \o Itoa(v[3])

VersionFail(err) == [err |-> err, version |-> <<0, 0, 0>>]

\* versionFromHeader with a bug: a missing header is an error
versionFromHeaderRequired(headerVer) ==
    IF headerVer = <<>>
    THEN VersionFail(<<"Infra-Version header required", ErrBadRequest>>)
    ELSE LET parsed == NewVersion(headerVer)
         IN  IF parsed.err # NilErr
             THEN VersionFail(<<"invalid Infra-Version header", ErrBadRequest>>
                              \o parsed.err)
             ELSE parsed

\* versionFromHeader with a bug: an unparsable header counts as 0.0.0
versionFromHeaderLenient(headerVer) ==
    LET parsed == NewVersion(headerVer)
    IN  IF parsed.err # NilErr THEN [err |-> NilErr, version |-> <<0, 0, 0>>]
        ELSE parsed

\* headerVer is req.Header.Get("Infra-Version"), <<>> when there is none
versionFromHeader(headerVer) ==
    LET h == IF headerVer = <<>> THEN VersionString(<<0, 0, 0>>) ELSE headerVer
    IN  IF h = <<>>
        THEN VersionFail(<<"Infra-Version header required", ErrBadRequest>>)
        ELSE LET parsed == NewVersion(h)
             IN  IF parsed.err # NilErr
                 THEN VersionFail(
                        <<"invalid Infra-Version header", ErrBadRequest>>
                        \o parsed.err)
                 ELSE parsed

\* a handler is named by what it is: none (nil), the route's latest
\* handler, or the handler registered for a version
NoHandler == [kind |-> "none", version |-> <<0, 0, 0>>]
LatestHandler == [kind |-> "latest", version |-> <<0, 0, 0>>]
VersionedHandler(v) == [kind |-> "versioned", version |-> v]

\* handlerForVersion with a bug: the scan runs from the newest version
RECURSIVE handlerForVersionReversed(_, _)
handlerForVersionReversed(vs, reqVer) ==
    IF vs = <<>> THEN NoHandler
    ELSE IF SemverGreaterThan(reqVer, vs[Len(vs)].version)
    THEN handlerForVersionReversed(SubSeq(vs, 1, Len(vs) - 1), reqVer)
    ELSE vs[Len(vs)].handler

RECURSIVE handlerForVersion(_, _)
handlerForVersion(vs, reqVer) ==
    IF vs = <<>> THEN NoHandler
    ELSE IF SemverGreaterThan(reqVer, Head(vs).version)
    THEN handlerForVersion(Tail(vs), reqVer)
    ELSE Head(vs).handler

\* validate.Error: what validate.Struct returns for a request that breaks
\* a validation rule
ValidateError == "validation failed"

\* sendAPIError: the status an error is answered with
sendAPIError(err) ==
    IF ErrorsIs(err, ErrBadRequest) THEN StatusBadRequest
    ELSE IF ErrorsIs(err, ValidateError) THEN StatusBadRequest
    ELSE IF ErrorsIs(err, ErrNotFound) THEN StatusNotFound
    ELSE StatusInternalServerError

\* a response written: by sendAPIError(c, err) or by c.JSON(code, resp)
ErrorResponse(err) == [by |-> "sendAPIError", status |-> sendAPIError(err)]
JSONResponse(code) == [by |-> "JSON", status |-> code]

\* defaultResponseCodeForMethod with a bug: every success is a 200
defaultResponseCodeAlwaysOK(method) == StatusOK

defaultResponseCodeForMethod(method) ==
    CASE method = "POST" -> StatusCreated
      [] method = "DELETE" -> StatusNoContent
      [] OTHER -> StatusOK

\* wrapHandler(handler)(c): bindErr is what bind returns, handlerErr what
\* the handler returns when it is called
\* wrapHandler with a bug: no return after the handler's error was sent
wrapHandlerNoReturn(method, bindErr, handlerErr) ==
    IF bindErr # NilErr
    THEN [called |-> FALSE, err |-> bindErr, status |-> sendAPIError(bindErr),
          sent |-> <<ErrorResponse(bindErr)>>]
    ELSE IF handlerErr # NilErr
    THEN [called |-> TRUE, err |-> handlerErr,
          status |-> defaultResponseCodeForMethod(method),
          sent |-> <<ErrorResponse(handlerErr),
                     JSONResponse(defaultResponseCodeForMethod(method))>>]
    ELSE [called |-> TRUE, err |-> NilErr,
          status |-> defaultResponseCodeForMethod(method),
          sent |-> <<JSONResponse(defaultResponseCodeForMethod(method))>>]

\* sent lists the responses written, status is the last of them
wrapHandler(method, bindErr, handlerErr) ==
    IF bindErr # NilErr
    THEN [called |-> FALSE, err |-> bindErr, status |-> sendAPIError(bindErr),
          sent |-> <<ErrorResponse(bindErr)>>]
    ELSE IF handlerErr # NilErr
    THEN [called |-> TRUE, err |-> handlerErr,
          status |-> sendAPIError(handlerErr),
          sent |-> <<ErrorResponse(handlerErr)>>]
    ELSE [called |-> TRUE, err |-> NilErr,
          status |-> defaultResponseCodeForMethod(method),
          sent |-> <<JSONResponse(defaultResponseCodeForMethod(method))>>]

\* bind(c, req): the request says whether its path parameters and its
\* query decode, what body it has ("none": nil or of length 0) and whether
\* the decoded value passes validate.Struct
bind(request) ==
    IF ~request.uri THEN <<"uri", ErrBadRequest>>
    ELSE IF ~request.query THEN <<"query", ErrBadRequest>>
    ELSE IF request.body = "malformed" THEN <<"json", ErrBadRequest>>
    ELSE IF ~request.valid THEN <<ValidateError>>
    ELSE NilErr

\* the gin handler of add with a bug: no return after the versioned
\* handler, so the latest handler runs as well
RouteHandlerFallsThrough(registry, key, headerVer, bindErr, handlerErr) ==
    LET ver == versionFromHeader(headerVer)
        versionedHandler == handlerForVersion(registry[key], ver.version)
        run == wrapHandler(key.method, bindErr, handlerErr)
    IN  IF ver.err # NilErr
        THEN [handler |-> NoHandler, called |-> FALSE, err |-> ver.err,
              status |-> sendAPIError(ver.err),
              sent |-> <<ErrorResponse(ver.err)>>, invoked |-> <<>>]
        ELSE [handler |-> IF versionedHandler # NoHandler
                          THEN versionedHandler ELSE LatestHandler,
              called |-> run.called, err |-> run.err, status |-> run.status,
              sent |-> run.sent,
              invoked |-> IF versionedHandler # NoHandler
                          THEN <<versionedHandler, LatestHandler>>
                          ELSE <<LatestHandler>>]

\* the gin handler add registers for a route (lines 160-173): what it
\* dispatches to and what it answers; invoked lists the handlers it calls
RouteHandler(registry, key, headerVer, bindErr, handlerErr) ==
    LET ver == versionFromHeader(headerVer)
        versionedHandler == handlerForVersion(registry[key], ver.version)
        run == wrapHandler(key.method, bindErr, handlerErr)
    IN  IF ver.err # NilErr
        THEN [handler |-> NoHandler, called |-> FALSE, err |-> ver.err,
              status |-> sendAPIError(ver.err),
              sent |-> <<ErrorResponse(ver.err)>>, invoked |-> <<>>]
        ELSE [handler |-> IF versionedHandler # NoHandler
                          THEN versionedHandler ELSE LatestHandler,
              called |-> run.called, err |-> run.err, status |-> run.status,
              sent |-> run.sent,
              invoked |-> IF versionedHandler # NoHandler
                          THEN <<versionedHandler>>
                          ELSE <<LatestHandler>>]

\* a nil requestRewrite or responseRewrite of an apiMigration
NoHook == [kind |-> "", id |-> 0]

\* strings.ToUpper on the method names migrations are registered with
ToUpper(s) ==
    CASE s = "get" -> "GET"
      [] s = "post" -> "POST"
      [] OTHER -> s

\* the loop of includeRewritesFor with the path test left out
RECURSIVE includeRewritesLoopAnyPath(_, _, _, _)
includeRewritesLoopAnyPath(rest, method, path, result) ==
    IF rest = <<>> THEN result
    ELSE LET migration == Head(rest)
             withRequest ==
                 IF migration.requestRewrite # NoHook
                 THEN Append(result, migration.requestRewrite)
                 ELSE result
             withResponse ==
                 IF migration.responseRewrite # NoHook
                 THEN Append(withRequest, migration.responseRewrite)
                 ELSE withRequest
         IN  IF ToUpper(migration.method) # method
             THEN includeRewritesLoopAnyPath(Tail(rest), method, path, result)
             ELSE includeRewritesLoopAnyPath(Tail(rest), method, path,
                                             withResponse)

\* the loop of includeRewritesFor over the migrations still to visit (rest),
\* with the handlers chain collected so far (result)
RECURSIVE includeRewritesLoop(_, _, _, _)
includeRewritesLoop(rest, method, path, result) ==
    IF rest = <<>> THEN result
    ELSE LET migration == Head(rest)
             withRequest ==
                 IF migration.requestRewrite # NoHook
                 THEN Append(result, migration.requestRewrite)
                 ELSE result
             withResponse ==
                 IF migration.responseRewrite # NoHook
                 THEN Append(withRequest, migration.responseRewrite)
                 ELSE withRequest
         IN  IF ToUpper(migration.method) # method
             THEN includeRewritesLoop(Tail(rest), method, path, result)
             ELSE IF migration.path # path
             THEN includeRewritesLoop(Tail(rest), method, path, result)
             ELSE includeRewritesLoop(Tail(rest), method, path, withResponse)

includeRewritesFor(a_migrations, method, path) ==
    includeRewritesLoop(a_migrations, method, path, <<>>)

-----------------------------------------------------------------------------
(* internal/access/access.go: the grant authorization engine *)

\* role and resource names
RoleAdmin == <<"a", "d", "m", "i", "n">>
RoleView == <<"v", "i", "e", "w">>
RoleConnector == <<"c", "o", "n">>
ResourceInfraAPI == <<"i", "n", "f", "r", "a">>
ResourceCluster == <<"k", "8", "s">>

\* uid.PolymorphicID: a tagged {kind, id}; kind "i" is a user, "g" a group
PolyID(kind, id) == [kind |-> kind, id |-> id]
UserIDs == {1, 2}
GroupIDs == {1}
Subjects == { PolyID("i", u) : u \in UserIDs } \cup
            { PolyID("g", g) : g \in GroupIDs }

\* the identities_groups relation: user 1 is a member of group 1
GroupMembers == { <<1, 1>> }

Elems(seq) == { seq[i] : i \in 1..Len(seq) }

\* data.ListGrants: the grants that are not deleted and match the options,
\* in table order, at most Pagination.Limit of them (0: no limit); dbErr is
\* the error of the query
ListGrants(tbl, opts, dbErr) ==
    LET Inherited(g) ==
            /\ opts.IncludeInheritedFromGroups
            /\ opts.BySubject.kind = "i" /\ g.subject.kind = "g"
            /\ <<opts.BySubject.id, g.subject.id>> \in GroupMembers
        Match(g) ==
            /\ g.deleted_at = 0
            /\ g.subject = opts.BySubject \/ Inherited(g)
            /\ g.privilege \in Elems(opts.ByPrivileges)
            /\ g.resource = opts.ByResource
        all == SelectSeq(tbl, Match)
    IN  IF dbErr # NilErr THEN [err |-> dbErr, grants |-> <<>>]
        ELSE [err |-> NilErr,
              grants |-> IF opts.Limit > 0 /\ Len(all) > opts.Limit
                         THEN SubSeq(all, 1, opts.Limit) ELSE all]

\* Can with a bug: grants of the subject's groups are not looked at
CanDirectOnly(tbl, identity, resource, privileges, dbErr) ==
    LET l == ListGrants(tbl, [Limit |-> 1, BySubject |-> identity,
                              ByPrivileges |-> privileges,
                              ByResource |-> resource,
                              IncludeInheritedFromGroups |-> FALSE], dbErr)
    IN  IF l.err # NilErr
        THEN [ok |-> FALSE, err |-> <<"has grants">> \o l.err]
        ELSE [ok |-> Len(l.grants) > 0, err |-> NilErr]

\* Can with a bug: a grant of another privilege on the resource denies
CanWithDeny(tbl, identity, resource, privileges, dbErr) ==
    LET l == ListGrants(tbl, [Limit |-> 1, BySubject |-> identity,
                              ByPrivileges |-> privileges,
                              ByResource |-> resource,
                              IncludeInheritedFromGroups |-> TRUE], dbErr)
        deny == \E i \in 1..Len(tbl) :
                   /\ tbl[i].deleted_at = 0
                   /\ tbl[i].subject = identity
                   /\ tbl[i].resource = resource
                   /\ tbl[i].privilege \notin Elems(privileges)
    IN  IF l.err # NilErr
        THEN [ok |-> FALSE, err |-> <<"has grants">> \o l.err]
        ELSE [ok |-> Len(l.grants) > 0 /\ ~deny, err |-> NilErr]

Can(tbl, identity, resource, privileges, dbErr) ==
    LET l == ListGrants(tbl, [Limit |-> 1, BySubject |-> identity,
                              ByPrivileges |-> privileges,
                              ByResource |-> resource,
                              IncludeInheritedFromGroups |-> TRUE], dbErr)
    IN  IF l.err # NilErr
        THEN [ok |-> FALSE, err |-> <<"has grants">> \o l.err]
        ELSE [ok |-> Len(l.grants) > 0, err |-> NilErr]

ErrNotAuthorized == "not authorized"

\* a data.GormTxn is named by a number; NilTxn is the nil handle
NilTxn == 0

\* RequireInfraRole with a bug: a failed grant lookup counts as "no grant"
RequireInfraRoleHidesError(tbl, rCtx, oneOfRoles, dbErr) ==
    IF rCtx.User = 0
    THEN [txn |-> NilTxn, err |-> <<"no active identity">>, queries |-> 0]
    ELSE LET c == Can(tbl, PolyID("i", rCtx.User), ResourceInfraAPI,
                      oneOfRoles, dbErr)
         IN  IF c.ok THEN [txn |-> rCtx.DBTxn, err |-> NilErr, queries |-> 1]
             ELSE [txn |-> NilTxn, err |-> <<ErrNotAuthorized>>, queries |-> 1]

\* rCtx is GetRequestContext(c): DBTxn, and Authenticated.User as the
\* user's id (0: nil); queries counts the grant lookups made
RequireInfraRole(tbl, rCtx, oneOfRoles, dbErr) ==
    IF rCtx.User = 0
    THEN [txn |-> NilTxn, err |-> <<"no active identity">>, queries |-> 0]
    ELSE LET c == Can(tbl, PolyID("i", rCtx.User), ResourceInfraAPI,
                      oneOfRoles, dbErr)
         IN  IF c.err # NilErr
             THEN [txn |-> NilTxn, err |-> c.err, queries |-> 1]
             ELSE IF c.ok
             THEN [txn |-> rCtx.DBTxn, err |-> NilErr, queries |-> 1]
             ELSE [txn |-> NilTxn, err |-> <<ErrNotAuthorized>>, queries |-> 1]

\* hasAuthorization with a bug: the error of the owner lookup is dropped
hasAuthorizationDropsError(tbl, rCtx, isResourceOwner, oneOfRoles, dbErr) ==
    IF isResourceOwner.owner
    THEN [txn |-> rCtx.DBTxn, err |-> NilErr, queries |-> 0]
    ELSE RequireInfraRole(tbl, rCtx, oneOfRoles, dbErr)

\* isResourceOwner is what isResourceOwner(c, requestedResource) returns
hasAuthorization(tbl, rCtx, isResourceOwner, oneOfRoles, dbErr) ==
    IF isResourceOwner.err # NilErr
    THEN [txn |-> NilTxn, err |-> <<"owner lookup">> \o isResourceOwner.err,
          queries |-> 0]
    ELSE IF isResourceOwner.owner
    THEN [txn |-> rCtx.DBTxn, err |-> NilErr, queries |-> 0]
    ELSE RequireInfraRole(tbl, rCtx, oneOfRoles, dbErr)

\* An error passed to HandleAuthErr is a chain as above, together with the
\* fields of the AuthorizationError the chain ends in, if it ends in one
AuthorizationErrorType == "access.AuthorizationError"
NoAuthorizationError ==
    [Resource |-> <<>>, Operation |-> <<>>, RequiredRoles |-> <<>>]
PlainError(chain) == [chain |-> chain, ae |-> NoAuthorizationError]
AuthorizationError(resource, operation, roles) ==
    [chain |-> <<AuthorizationErrorType>>,
     ae |-> [Resource |-> resource, Operation |-> operation,
             RequiredRoles |-> roles]]

\* fmt.Errorf("msg: %w", e)
Wrapf(msg, e) == [e EXCEPT !.chain = <<msg>> \o @]

\* AuthorizationError.Is
AuthorizationErrorIs(other) == other = ErrNotAuthorized

\* errors.Is: some error of the chain equals target, or is an
\* AuthorizationError whose Is method accepts target
errorsIs(e, target) ==
    \E i \in 1..Len(e.chain) :
        \/ e.chain[i] = target
        \/ e.chain[i] = AuthorizationErrorType /\ AuthorizationErrorIs(target)

\* HandleAuthErr with a bug: err is compared with the sentinel itself
HandleAuthErrIdentity(err, resource, operation, roles) ==
    IF err # PlainError(<<ErrNotAuthorized>>) THEN err
    ELSE AuthorizationError(resource, operation, roles)

HandleAuthErr(err, resource, operation, roles) ==
    IF ~errorsIs(err, ErrNotAuthorized) THEN err
    ELSE AuthorizationError(resource, operation, roles)

\* the roles part of the message: WriteString calls for RequiredRoles from
\* index i (0-based) on
RECURSIVE WriteRoles(_, _)
WriteRoles(roles, i) ==
    IF i >= Len(roles) THEN <<>>
    ELSE roles[i + 1]
         \o (IF i + 1 = Len(roles) - 1 THEN <<",", " ", "o", "r", " ">>
             ELSE IF i + 1 # Len(roles) THEN <<",", " ">>
             ELSE <<>>)
         \o WriteRoles(roles, i + 1)

\* AuthorizationError.Error
AuthorizationErrorError(ae) ==
    LET roles == IF Len(ae.RequiredRoles) = 1 THEN ae.RequiredRoles[1]
                 ELSE WriteRoles(ae.RequiredRoles, 0)
    IN  <<"y", "o", "u", " ", "d", "o", " ", "n", "o", "t", " ", "h", "a", "v", "e", " ", "p", "e", "r", "m", "i", "s", "s", "i", "o", "n", " ", "t", "o", " ">>
        \o ae.Operation \o <<" ">> \o ae.Resource
        \o <<",", " ", "r", "e", "q", "u", "i", "r", "e", "s", " ", "r", "o", "l", "e", " ">> \o roles

-----------------------------------------------------------------------------
(* Access inputs *)

NoSubject == PolyID("", 0)

\* the grants a caller may create
GrantInputs ==
    [subject : Subjects, privilege : {RoleAdmin, RoleView},
     resource : {ResourceInfraAPI, ResourceCluster}, deleted_at : {0}]

\* the variadic privileges / oneOfRoles arguments
RoleLists == { <<>>, <<RoleAdmin>>, <<RoleView>>, <<RoleAdmin, RoleView>> }

\* what the store answers a query with: nil or an error
DBErrors == { NilErr, <<"connection refused">> }

\* the request contexts: a transaction and the authenticated user, if any
NoCtx == [DBTxn |-> NilTxn, User |-> 0]
RequestContexts == [DBTxn : {1, 2}, User : {0} \cup UserIDs]

\* the grants tables a request may find: up to one row, live or deleted
GrantTables ==
    { <<>> } \cup { <<[g EXCEPT !.deleted_at = d]>> :
                      g \in GrantInputs, d \in {0, 1} }

NoAuthz == [op |-> "none", subject |-> NoSubject, resource |-> <<>>,
            roles |-> <<>>, dbErr |-> NilErr, ok |-> FALSE, err |-> NilErr,
            ctx |-> NoCtx, txn |-> NilTxn, queries |-> 0,
            owner |-> [owner |-> FALSE, err |-> NilErr],
            operation |-> <<>>, errIn |-> PlainError(NilErr),
            out |-> PlainError(NilErr), msg |-> <<>>]

\* the role lists an AuthorizationError may carry
RequiredRoleLists ==
    RoleLists \cup { <<RoleAdmin, RoleView, RoleConnector>>,
                     <<RoleView, RoleAdmin, RoleConnector, RoleView>> }

\* the resource and operation names handlers pass to HandleAuthErr
ResourceNames == { <<"u", "s", "e", "r">>, <<"g", "r", "a", "n", "t">> }
OperationNames == { <<"l", "i", "s", "t">>, <<"c", "r", "e", "a", "t", "e">> }

\* the errors HandleAuthErr is given: nil, the sentinel bare and wrapped
\* once and twice, other errors, an error whose text only mentions the
\* sentinel's, and an AuthorizationError made by an earlier call
HandledErrors ==
    { PlainError(NilErr), PlainError(<<ErrNotAuthorized>>),
      PlainError(<<"owner lookup", ErrNotAuthorized>>),
      PlainError(<<"get user", "owner lookup", ErrNotAuthorized>>),
      PlainError(<<ErrNotFound>>),
      PlainError(<<"has grants", "connection refused">>),
      PlainError(<<"no active identity">>),
      PlainError(<<"owner lookup: not authorized">>),
      AuthorizationError(<<"g", "r", "a", "n", "t">>, <<"l", "i", "s", "t">>, <<RoleAdmin>>),
      Wrapf("get user", AuthorizationError(<<"g", "r", "a", "n", "t">>, <<"l", "i", "s", "t">>, <<RoleAdmin>>)) }

\* what an isResourceOwner function may return
OwnerResults ==
    { [owner |-> FALSE, err |-> NilErr], [owner |-> TRUE, err |-> NilErr],
      [owner |-> FALSE, err |-> <<ErrNotFound>>],
      [owner |-> FALSE, err |-> <<ErrNotAuthorized>>] }

-----------------------------------------------------------------------------
(* Router inputs *)

RouteKeys == { [method |-> m, path |-> <<"/api/access-keys">>] :
                 m \in {"GET", "POST"} }

\* the versions handlers are registered for
RegisteredVersions == { <<0, 10, 0>>, <<0, 12, 0>>, <<0, 14, 0>> }

\* the ascending version lists a route may be registered with
AscendingLists ==
    { vs \in UNION { [1..n -> RegisteredVersions] : n \in 0..3 } :
        \A i \in 1..(Len(vs) - 1) : SemverGreaterThan(vs[i + 1], vs[i]) }

Registries ==
    [RouteKeys -> { [i \in 1..Len(vs) |->
                       [version |-> vs[i], handler |-> VersionedHandler(vs[i])]] :
                    vs \in AscendingLists }]

\* the versions clients declare
DeclaredVersions ==
    { <<0, 0, 0>>, <<0, 10, 0>>, <<0, 11, 0>>, <<0, 12, 0>>, <<0, 12, 3>>,
      <<0, 13, 0>>, <<1, 0, 0>> }

\* header values that are no semantic version
MalformedHeaders ==
    { <<"n", "e", "t">>, <<"0", ".", ".", "1">>, <<"1", ".", "2", ".", "3", ".", "4">>,
      <<"0", ".", "1", "a">> }

NoVersion == <<>>

\* what bind and the handler return: the handler runs only after bind
\* returned nil
Outcomes ==
    { [bind |-> NilErr, handler |-> NilErr],
      [bind |-> <<"bind", ErrBadRequest>>, handler |-> NilErr],
      [bind |-> NilErr, handler |-> <<ErrNotFound>>] }

\* the requests bind is given
NoRequest == [uri |-> TRUE, query |-> TRUE, body |-> "none", valid |-> TRUE]
Requests == [uri : BOOLEAN, query : BOOLEAN,
             body : {"none", "json", "malformed"}, valid : BOOLEAN]

\* the methods routes are added for
Methods == {"GET", "POST", "PUT", "DELETE"}

\* what a handler returns
HandlerErrors == { NilErr, <<ErrNotFound>> }

\* the method names a migration may be registered with
MigrationMethods == {"GET", "get", "POST"}

\* the methods routes are added with (http.MethodGet, http.MethodPost)
RouteMethods == {"GET", "POST"}

\* a collection path and the path of one of its members
MigrationPaths == { <<"api", "users">>, <<"api", "users", ":id">> }

\* the n-th migration registered: its hooks are its own closures
Hook(kind, n) == [kind |-> kind, id |-> n]

MigrationInputs(n) ==
    { [method |-> m, path |-> p, requestRewrite |-> req,
       responseRewrite |-> res] :
        m \in MigrationMethods, p \in MigrationPaths,
        req \in {NoHook, Hook("request", n)},
        res \in {NoHook, Hook("response", n)} }

NoChain == [called |-> FALSE, method |-> "", path |-> <<>>, hooks |-> <<>>]

NoResp == [route |-> [method |-> "", path |-> <<>>], header |-> <<>>,
           declared |-> NoVersion, handler |-> NoHandler, called |-> FALSE,
           err |-> NilErr, status |-> 0, served |-> 0,
           outcome |-> [bind |-> NilErr, handler |-> NilErr],
           sent |-> <<>>, request |-> NoRequest, invoked |-> <<>>]

-----------------------------------------------------------------------------
(* Request tasks *)

Tasks == {1, 2}

\* ret: the call, the credential it was given, and what it returned
NoRet == [op |-> "none", arg |-> <<>>, err |-> NilErr, body |-> <<>>,
          key |-> ZeroAccessKey]

\* an API before addRequestRewrites and addResponseRewrites have run
InitMigrations ==
    /\ migrations = <<>>
    /\ rewrites = NoChain

InitKeys ==
    /\ access_keys = <<>>
    /\ now = 1
    /\ ret = NoRet
    /\ pc = [p \in Tasks |-> "idle"]
    /\ held = [p \in Tasks |-> ZeroAccessKey]
    /\ issued = <<>>

\* GenerateRoutes: an API with no versioned handler registered
InitAccess ==
    /\ grants = <<>>
    /\ authz = NoAuthz

Init ==
    /\ InitKeys
    /\ versions = [k \in RouteKeys |-> <<>>]
    /\ resp = NoResp
    /\ InitMigrations
    /\ InitAccess

\* an API whose routes carry ascending lists of versioned handlers
InitRouter ==
    /\ InitKeys
    /\ versions \in Registries
    /\ resp = NoResp
    /\ InitMigrations
    /\ InitAccess

\* a request to a registered route: either with a header declaring
\* version v, or with the raw header value h (<<>>: no header)
Serve(key, headerVer, v, bindErr, handlerErr) ==
    LET r == RouteHandler(versions, key, headerVer, bindErr, handlerErr)
    IN  /\ resp' = [route |-> key, header |-> headerVer, declared |-> v,
                    handler |-> r.handler, called |-> r.called,
                    err |-> r.err, status |-> r.status, served |-> 1,
                    outcome |-> [bind |-> bindErr, handler |-> handlerErr],
                    sent |-> r.sent, request |-> NoRequest,
                    invoked |-> r.invoked]
        /\ UNCHANGED <<keyVars, versions, migrations, rewrites, accessVars>>

RequestWithVersion ==
    \E key \in RouteKeys, v \in DeclaredVersions, o \in Outcomes :
        Serve(key, VersionString(v), v, o.bind, o.handler)

RequestWithoutVersion ==
    \E key \in RouteKeys, o \in Outcomes :
        Serve(key, <<>>, NoVersion, o.bind, o.handler)

RequestMalformedVersion ==
    \E key \in RouteKeys, h \in MalformedHeaders, o \in Outcomes :
        Serve(key, h, NoVersion, o.bind, o.handler)

NextRouter ==
    RequestWithVersion \/ RequestWithoutVersion \/ RequestMalformedVersion

SpecRouter == InitRouter /\ [][NextRouter]_vars

\* a request reaches the wrapped latest handler of a route
WrappedRequest ==
    /\ \E method \in Methods, request \in Requests,
          handlerErr \in HandlerErrors :
         LET bindErr == bind(request)
             r == wrapHandler(method, bindErr, handlerErr)
         IN  resp' = [NoResp EXCEPT
                        !.route = [method |-> method,
                                   path |-> <<"/api/access-keys">>],
                        !.handler = LatestHandler, !.called = r.called,
                        !.err = r.err, !.status = r.status, !.served = 1,
                        !.outcome = [bind |-> bindErr, handler |-> handlerErr],
                        !.sent = r.sent, !.request = request,
                        !.invoked = <<LatestHandler>>]
    /\ UNCHANGED <<keyVars, versions, migrations, rewrites, accessVars>>

NextWrap == WrappedRequest

SpecWrap == Init /\ [][NextWrap]_vars

\* addRequestRewrite, addResponseRewrite: one more migration is registered,
\* before any route is added
AddMigration ==
    /\ Len(migrations) < MaxMigrations
    /\ ~rewrites.called
    /\ \E migration \in MigrationInputs(Len(migrations) + 1) :
         migrations' = Append(migrations, migration)
    /\ UNCHANGED <<keyVars, versions, resp, rewrites, accessVars>>

\* a route is added: the rewrite hooks for its method and path are collected
IncludeRewrites ==
    /\ \E method \in RouteMethods, path \in MigrationPaths :
         rewrites' = [called |-> TRUE, method |-> method, path |-> path,
                   hooks |-> includeRewritesFor(migrations, method, path)]
    /\ UNCHANGED <<keyVars, versions, resp, migrations, accessVars>>

NextRewrites == AddMigration \/ IncludeRewrites

SpecRewrites == Init /\ [][NextRewrites]_vars

-----------------------------------------------------------------------------
(* Grants and the checks on them *)

\* a grant is created: a new row of the grants table
CreateGrant ==
    /\ Len(grants) < MaxGrants
    /\ \E g \in GrantInputs : grants' = Append(grants, g)
    /\ authz' = NoAuthz
    /\ UNCHANGED <<keyVars, routerVars>>

\* a grant is deleted: its row gets deleted_at
DeleteGrant ==
    /\ \E i \in 1..Len(grants) :
         /\ grants[i].deleted_at = 0
         /\ grants' = [grants EXCEPT ![i].deleted_at = now]
    /\ authz' = NoAuthz
    /\ UNCHANGED <<keyVars, routerVars>>

CanCall ==
    /\ \E identity \in Subjects,
          resource \in {ResourceInfraAPI, ResourceCluster},
          privileges \in RoleLists, dbErr \in DBErrors :
         LET r == Can(grants, identity, resource, privileges, dbErr)
         IN  authz' = [NoAuthz EXCEPT !.op = "Can", !.subject = identity,
                         !.resource = resource, !.roles = privileges,
                         !.dbErr = dbErr, !.ok = r.ok, !.err = r.err]
    /\ UNCHANGED <<keyVars, routerVars, grants>>

NextGrants == CreateGrant \/ DeleteGrant \/ CanCall

SpecGrants == Init /\ [][NextGrants]_vars

\* a grants table as some earlier requests left it
InitAuthz ==
    /\ InitKeys
    /\ versions = [k \in RouteKeys |-> <<>>]
    /\ resp = NoResp
    /\ InitMigrations
    /\ grants \in GrantTables
    /\ authz = NoAuthz

RequireInfraRoleCall ==
    /\ \E rCtx \in RequestContexts, oneOfRoles \in RoleLists,
          dbErr \in DBErrors :
         LET r == RequireInfraRole(grants, rCtx, oneOfRoles, dbErr)
         IN  authz' = [NoAuthz EXCEPT !.op = "RequireInfraRole",
                         !.ctx = rCtx, !.roles = oneOfRoles,
                         !.dbErr = dbErr, !.err = r.err, !.txn = r.txn,
                         !.queries = r.queries]
    /\ UNCHANGED <<keyVars, routerVars, grants>>

hasAuthorizationCall ==
    /\ \E rCtx \in RequestContexts, isResourceOwner \in OwnerResults,
          oneOfRoles \in RoleLists, dbErr \in DBErrors :
         LET r == hasAuthorization(grants, rCtx, isResourceOwner,
                                   oneOfRoles, dbErr)
         IN  authz' = [NoAuthz EXCEPT !.op = "hasAuthorization",
                         !.ctx = rCtx, !.owner = isResourceOwner,
                         !.roles = oneOfRoles, !.dbErr = dbErr,
                         !.err = r.err, !.txn = r.txn, !.queries = r.queries]
    /\ UNCHANGED <<keyVars, routerVars, grants>>

NextAuthz == RequireInfraRoleCall \/ hasAuthorizationCall

SpecAuthz == InitAuthz /\ [][NextAuthz]_vars

HandleAuthErrCall ==
    /\ \E err \in HandledErrors, resource \in ResourceNames,
          operation \in OperationNames, roles \in RoleLists :
         authz' = [NoAuthz EXCEPT !.op = "HandleAuthErr", !.errIn = err,
                     !.resource = resource, !.operation = operation,
                     !.roles = roles,
                     !.out = HandleAuthErr(err, resource, operation, roles)]
    /\ UNCHANGED <<keyVars, routerVars, grants>>

ErrorCall ==
    /\ \E resource \in ResourceNames, operation \in OperationNames,
          roles \in RequiredRoleLists :
         LET e == AuthorizationError(resource, operation, roles)
         IN  authz' = [NoAuthz EXCEPT !.op = "Error", !.errIn = e,
                         !.msg = AuthorizationErrorError(e.ae)]
    /\ UNCHANGED <<keyVars, routerVars, grants>>

NextAuthErr == HandleAuthErrCall \/ ErrorCall

SpecAuthErr == Init /\ [][NextAuthErr]_vars

Tick ==
    /\ now < MaxTime
    /\ now' = now + 1
    /\ ret' = NoRet
    /\ UNCHANGED <<access_keys, pc, held, issued, routerVars, accessVars>>

\* a call of CreateAccessKey in a transaction of tenant org
Create(orgs, inputs) ==
    \E org \in orgs, a \in inputs :
    \E rk \in IF a.KeyID = <<>> THEN RandomKeyIDs ELSE {KeyG},
       rs \in IF a.Secret = <<>> THEN RandomSecrets ELSE {SecretT} :
        LET r == CreateAccessKey(access_keys, org, a, rk, rs, now)
        IN  /\ Len(access_keys) < MaxKeys
            /\ access_keys' = r.tbl
            /\ ret' = [op |-> "Create", arg |-> <<>>, err |-> r.err,
                       body |-> r.body,
                       key |-> IF r.err = NilErr THEN r.key ELSE ZeroAccessKey]
            /\ issued' = IF r.err = NilErr THEN Append(issued, r.body)
                                           ELSE issued
            /\ UNCHANGED <<now, pc, held, routerVars, accessVars>>

\* a call of ValidateAccessKey that no other call interleaves with
Validate ==
    \E c \in Credentials :
        LET r == ValidateAccessKey(access_keys, c, now)
        IN  /\ access_keys' = r.tbl
            /\ ret' = [op |-> "Validate", arg |-> c, err |-> r.err,
                       body |-> <<>>, key |-> r.key]
            /\ UNCHANGED <<now, pc, held, issued, routerVars, accessVars>>

\* a call of DeleteAccessKeys in a transaction of tenant org
Delete(orgs, inputs) ==
    \E org \in orgs, opts \in inputs :
        LET r == DeleteAccessKeys(access_keys, org, opts, now)
        IN  /\ access_keys' = r.tbl
            /\ ret' = [op |-> "Delete", arg |-> opts, err |-> r.err,
                       body |-> <<>>, key |-> ZeroAccessKey]
            /\ UNCHANGED <<now, pc, held, issued, routerVars, accessVars>>

LifecycleCreate == Create({1}, LifecycleCreates(now))
LifecycleDelete == Delete({1}, LifecycleDeletes)

Next == Tick \/ LifecycleCreate \/ Validate \/ LifecycleDelete

Spec == Init /\ [][Next]_vars

IssuanceCreate == Create({1}, IssuanceCreates(now))

\* task p enters ValidateAccessKey: GetAccessKey and the checks of lines
\* 162-187; the call returns here unless SaveAccessKey is to follow
ValidateBegin(p) ==
    \E c \in RaceCredentials :
        LET v == ValidateLoad(access_keys, c, now)
        IN  /\ pc[p] = "idle"
            /\ IF v.write
               THEN /\ pc' = [pc EXCEPT ![p] = "save"]
                    /\ held' = [held EXCEPT ![p] = v.key]
                    /\ UNCHANGED ret
               ELSE /\ ret' = [op |-> "Validate", arg |-> c, err |-> v.err,
                               body |-> <<>>, key |-> v.key]
                    /\ UNCHANGED <<pc, held>>
            /\ UNCHANGED <<access_keys, now, issued, routerVars, accessVars>>

\* task p runs SaveAccessKey(tx, t) and returns t (lines 188-193)
ValidateSave(p) ==
    /\ pc[p] = "save"
    /\ access_keys' = SaveAccessKey(access_keys, held[p])
    /\ ret' = [op |-> "Validate", arg |-> issued[held[p].ID], err |-> NilErr,
               body |-> <<>>, key |-> held[p]]
    /\ pc' = [pc EXCEPT ![p] = "idle"]
    /\ held' = [held EXCEPT ![p] = ZeroAccessKey]
    /\ UNCHANGED <<now, issued, routerVars, accessVars>>

RaceCreate == /\ \A p \in Tasks : pc[p] = "idle"
              /\ Create({1}, RaceCreates(now))

NextRace ==
    \/ Tick
    \/ RaceCreate
    \/ \E p \in Tasks : ValidateBegin(p)
    \/ \E p \in Tasks : ValidateSave(p)

SpecRace == Init /\ [][NextRace]_vars

LapseCreate == Create({1}, LapseCreates(now))

\* a call of ValidateAccessKey with one of the lapse credentials
LapseValidate ==
    \E c \in LapseCredentials :
        LET r == ValidateAccessKey(access_keys, c, now)
        IN  /\ access_keys' = r.tbl
            /\ ret' = [op |-> "Validate", arg |-> c, err |-> r.err,
                       body |-> <<>>, key |-> r.key]
            /\ UNCHANGED <<now, pc, held, issued, routerVars, accessVars>>

\* keys are created, used and revoked while the clock moves forward
NextLapse == Tick \/ LapseCreate \/ LapseValidate \/ LifecycleDelete

SpecLapse == Init /\ [][NextLapse]_vars

\* a key is revoked by its id while requests presenting it are in flight
RaceDelete == Delete({1}, LifecycleDeletes)

NextRevokeRace ==
    \/ RaceCreate
    \/ \E p \in Tasks : ValidateBegin(p)
    \/ \E p \in Tasks : ValidateSave(p)
    \/ RaceDelete

SpecRevokeRace == Init /\ [][NextRevokeRace]_vars

RevocationCreate == Create({1, 2}, RevocationCreates)
RevocationDelete == Delete({1, 2}, RevocationDeletes)

\* revocation does not read the clock beyond stamping deleted_at: the
\* clock does not move
NextRevocation == RevocationCreate \/ Validate \/ RevocationDelete

SpecRevocation == Init /\ [][NextRevocation]_vars

\* issuance is observed at one instant: the clock does not move
NextIssuance == IssuanceCreate \/ Validate \/ LifecycleDelete

SpecIssuance == Init /\ [][NextIssuance]_vars

FormatCreate == Create({1}, FormatCreates(now))

FormatValidate ==
    \E c \in FormatCredentials :
        LET r == ValidateAccessKey(access_keys, c, now)
        IN  /\ access_keys' = r.tbl
            /\ ret' = [op |-> "Validate", arg |-> c, err |-> r.err,
                       body |-> <<>>, key |-> r.key]
            /\ UNCHANGED <<now, pc, held, issued, routerVars, accessVars>>

NextFormat == FormatCreate \/ FormatValidate

SpecFormat == Init /\ [][NextFormat]_vars

-----------------------------------------------------------------------------
(* Claims about the key lifecycle, checked under Spec *)

\* the keys whose credential still finds its record: created, not tombstoned
LiveKeys == {i \in 1..Len(access_keys) : access_keys[i].deleted_at = 0}

\* C2: once now > ExpiresAt, every Validate of the key's credential fails
\* with ErrAccessKeyExpired (not the deadline error, and without a write),
\* whatever Extension and ExtensionDeadline hold and however often the
\* deadline slid before; and no Validate ever succeeds after ExpiresAt.
C2_ExpiredKeyNeverValidates ==
    /\ \A i \in LiveKeys :
         now > access_keys[i].expires_at =>
           LET r == ValidateAccessKey(access_keys, issued[i], now)
           IN  r.err = ErrAccessKeyExpired /\ r.tbl = access_keys
    /\ (ret.op = "Validate" /\ ret.err = NilErr) => now <= ret.key.ExpiresAt

\* a Validate has failed with ErrAccessKeyExpired on a key whose extension
\* deadline is still ahead (it slid past ExpiresAt in an earlier Validate)
C2_Witness ==
    /\ ret.op = "Validate"
    /\ ret.err = ErrAccessKeyExpired
    /\ \E i \in LiveKeys :
         /\ ret.arg = issued[i]
         /\ now > access_keys[i].expires_at
         /\ access_keys[i].extension_deadline >= now

\* C3: for a key with ExtensionDeadline = t0 # 0 and now <= ExpiresAt, a
\* Validate at now < t0 succeeds and stores ExtensionDeadline = now +
\* Extension; a Validate at now > t0 fails with
\* ErrAccessKeyDeadlineExceeded, also when now < ExpiresAt, and stores
\* nothing.
C3_SlidingWindow ==
    \A i \in LiveKeys :
      LET k == access_keys[i]
          r == ValidateAccessKey(access_keys, issued[i], now)
      IN  (k.extension_deadline # 0 /\ now <= k.expires_at) =>
            /\ now < k.extension_deadline =>
                 /\ r.err = NilErr
                 /\ r.tbl[i].extension_deadline = now + k.extension
                 /\ r.key.ExtensionDeadline = now + k.extension
            /\ now > k.extension_deadline =>
                 /\ r.err = ErrAccessKeyDeadlineExceeded
                 /\ r.tbl = access_keys

\* a Validate has failed with the deadline error before ExpiresAt, on a
\* key whose deadline an earlier Validate slid (a stored deadline of 1 is
\* written only by a slide at time 1 with Extension 0)
C3_Witness ==
    /\ ret.op = "Validate"
    /\ ret.err = ErrAccessKeyDeadlineExceeded
    /\ \E i \in LiveKeys :
         /\ ret.arg = issued[i]
         /\ now < access_keys[i].expires_at
         /\ access_keys[i].extension_deadline = 1

-----------------------------------------------------------------------------
(* Claims about issuance, checked under SpecIssuance *)

\* the plaintext secret of key i: what follows the key-id and the dot in
\* the credential Create returned
PlainSecret(i) == SubSeq(issued[i], AccessKeyKeyLength + 2, Len(issued[i]))

\* C1: Validate applied to the credential string a successful Create has
\* just returned (key-id and secret absent or of the fixed lengths, expiry
\* and deadline unset or in the future) succeeds and returns the record
\* whose IssuedFor is the one given to Create.
C1_RoundTrip ==
    (ret.op = "Create" /\ ret.err = NilErr) =>
        LET r == ValidateAccessKey(access_keys, ret.body, now)
        IN  r.err = NilErr /\ r.key.IssuedFor = ret.key.IssuedFor

\* the round trip of every key whose key-id holds no dot (generated
\* key-ids are alphanumeric): what is left of C1 on the code
RoundTripDotFree ==
    (ret.op = "Create" /\ ret.err = NilErr
       /\ ~Cut(ret.key.KeyID, ".").found) =>
        LET r == ValidateAccessKey(access_keys, ret.body, now)
        IN  r.err = NilErr /\ r.key.IssuedFor = ret.key.IssuedFor

\* the columns that hold text
TextColumns == {"key_id", "name", "scopes", "secret_checksum"}

\* C5: after any sequence of Create, Validate and Delete, every persisted
\* row has exactly the columns of the table, none of them the plaintext
\* secret of any key; secret_checksum is the digest of the key's secret;
\* and the record Validate returns carries no plaintext secret.
C5_SecretNeverStored ==
    /\ \A i \in 1..Len(access_keys) :
         /\ DOMAIN access_keys[i] = Columns
         /\ access_keys[i].secret_checksum = secretChecksum(PlainSecret(i))
         /\ \A j \in 1..Len(access_keys), f \in TextColumns :
              access_keys[i][f] # PlainSecret(j)
    /\ ret.op = "Validate" => ret.key.Secret = <<>>

\* two keys were created, one of them was tombstoned, and a Validate of
\* the other has slid and written back its deadline
C5_Witness ==
    /\ Len(access_keys) = 2
    /\ \E i \in 1..2 : access_keys[i].deleted_at # 0
    /\ ret.op = "Validate" /\ ret.err = NilErr
    /\ access_keys[ret.key.ID].extension_deadline = now + 1

-----------------------------------------------------------------------------
(* Claims about revocation, checked under SpecRevocation *)

Tombstoned == {i \in 1..Len(access_keys) : access_keys[i].deleted_at # 0}

\* every Validate of a tombstoned key's credential fails, as not found
\* and without a write, and no Validate returns a tombstoned record
TombstonedFails ==
    /\ \A i \in Tombstoned :
         LET r == ValidateAccessKey(access_keys, issued[i], now)
         IN  ErrorsIs(r.err, ErrNotFound) /\ r.tbl = access_keys
    /\ (ret.op = "Validate" /\ ret.err = NilErr) =>
         ret.key.ID \notin Tombstoned

\* no step clears a tombstone
TombstoneStays ==
    \A i \in Tombstoned : access_keys'[i].deleted_at # 0

-----------------------------------------------------------------------------
(* Claims about concurrent validation, checked under SpecRace *)

\* C4: two Validate calls on the same key with a non-zero
\* ExtensionDeadline are serialized: while one call is between its read
\* of the key and its write-back, no other call has read the same key and
\* is waiting to write its own extension.
C4_ValidateSerialized ==
    \A p, q \in Tasks :
        (p # q /\ pc[p] = "save" /\ pc[q] = "save") =>
            held[p].ID # held[q].ID

-----------------------------------------------------------------------------
(* Version dispatch *)

\* the versions registered for the route of the last request, in order
RouteVersions == [i \in 1..Len(versions[resp.route]) |->
                    versions[resp.route][i].version]

SemverLessThan(v, w) == SemverGreaterThan(w, v)

\* the registered versions of the route that are not less than v
NotLess(v) == { i \in 1..Len(RouteVersions) : ~SemverLessThan(RouteVersions[i], v) }

\* C7: on a route whose registered versions ascend, a request declaring
\* version v is dispatched to the first registered handler whose version is
\* not less than v, and to the latest handler when there is none; with
\* [0.10.0, 0.12.0] a request declaring 0.11.0 gets 0.12.0 and one declaring
\* 0.13.0 gets the latest handler.
C7_VersionDispatch ==
    (resp.served = 1 /\ resp.declared # NoVersion) =>
        /\ IF NotLess(resp.declared) = {}
           THEN resp.handler = LatestHandler
           ELSE LET first == CHOOSE i \in NotLess(resp.declared) :
                               \A j \in NotLess(resp.declared) : i <= j
                IN  resp.handler = VersionedHandler(RouteVersions[first])
        /\ RouteVersions = << <<0, 10, 0>>, <<0, 12, 0>> >> =>
             /\ resp.declared = <<0, 11, 0>> =>
                  resp.handler = VersionedHandler(<<0, 12, 0>>)
             /\ resp.declared = <<0, 13, 0>> => resp.handler = LatestHandler
             /\ resp.declared = <<0, 10, 0>> =>
                  resp.handler = VersionedHandler(<<0, 10, 0>>)

C7_Witness ==
    /\ resp.served = 1
    /\ RouteVersions = << <<0, 10, 0>>, <<0, 12, 0>> >>
    /\ resp.declared = <<0, 11, 0>>
    /\ resp.handler = VersionedHandler(<<0, 12, 0>>)
    /\ resp.called

\* C8: a request without an Infra-Version header is answered 400 and no
\* handler is invoked.
C8_MissingHeaderRejected ==
    (resp.served = 1 /\ resp.header = <<>>) =>
        /\ resp.status = StatusBadRequest
        /\ resp.handler = NoHandler
        /\ ~resp.called

C10_MalformedHeaderRejected ==
    (resp.served = 1 /\ resp.header # <<>>
       /\ NewVersion(resp.header).err # NilErr) =>
        /\ ErrorsIs(resp.err, ErrBadRequest)
        /\ resp.handler = NoHandler
        /\ ~resp.called

C10_Witness ==
    /\ resp.served = 1
    /\ resp.header = <<"0", ".", ".", "1">>
    /\ RouteVersions # <<>>
    /\ resp.outcome.bind = NilErr
    /\ ErrorsIs(resp.err, ErrBadRequest)
    /\ ~resp.called

-----------------------------------------------------------------------------
(* Grant checks *)

\* the groups a subject belongs to
GroupsOf(subject) ==
    IF subject.kind = "i"
    THEN { PolyID("g", g) : g \in { h \in GroupIDs : <<subject.id, h>> \in GroupMembers } }
    ELSE {}

\* the live grants that give subject one of privileges on resource,
\* directly or through a group
Granting(subject, resource, privileges) ==
    { i \in 1..Len(grants) :
        /\ grants[i].deleted_at = 0
        /\ grants[i].resource = resource
        /\ \E k \in 1..Len(privileges) : grants[i].privilege = privileges[k]
        /\ grants[i].subject \in {subject} \cup GroupsOf(subject) }

\* C11: when the lookup succeeds Can answers true exactly when a live
\* grant on the resource with one of the privileges exists for the subject
\* or one of its groups (a group's grant is enough); with a failed lookup
\* it answers false with the error; the answer is that of the same query
\* without the limit.
C11_CanIffGrant ==
    authz.op = "Can" =>
        /\ authz.dbErr = NilErr =>
             /\ authz.err = NilErr
             /\ authz.ok <=>
                  Granting(authz.subject, authz.resource, authz.roles) # {}
             /\ authz.ok <=>
                  ListGrants(grants,
                             [Limit |-> 0, BySubject |-> authz.subject,
                              ByPrivileges |-> authz.roles,
                              ByResource |-> authz.resource,
                              IncludeInheritedFromGroups |-> TRUE],
                             NilErr).grants # <<>>
        /\ authz.dbErr # NilErr => ~authz.ok /\ authz.err # NilErr

\* a member of group 1 passes on the group's grant alone, with two
\* matching grants in the table
C11_Witness ==
    /\ authz.op = "Can" /\ authz.ok
    /\ authz.subject = PolyID("i", 1)
    /\ \A i \in 1..Len(grants) : grants[i].subject = PolyID("g", 1)
    /\ Cardinality(Granting(authz.subject, authz.resource, authz.roles)) = 2

Resources == {ResourceInfraAPI, ResourceCluster}

\* the live grants of a subject and its groups on a resource
GrantsOn(subject, resource) ==
    { i \in 1..Len(grants) :
        /\ grants[i].deleted_at = 0
        /\ grants[i].resource = resource
        /\ grants[i].subject \in {subject} \cup GroupsOf(subject) }

\* with no live grant left for the subject and its groups on a resource,
\* Can is false for every privilege
RevokedDenied ==
    \A s \in Subjects, r \in Resources :
        GrantsOn(s, r) = {} =>
            \A p \in RoleLists : ~Can(grants, s, r, p, NilErr).ok

\* a step that adds a grant keeps every true answer true
AddingKeeps ==
    Len(grants') > Len(grants) =>
        \A s \in Subjects, r \in Resources, p \in RoleLists :
            Can(grants, s, r, p, NilErr).ok => Can(grants', s, r, p, NilErr).ok

\* C12: there is no negative grant: adding a grant never turns a true
\* answer of Can into false, and once every grant of the subject and its
\* groups on a resource is deleted Can is false for every privilege.
C12_NoNegativeGrants == []RevokedDenied /\ [][AddingKeeps]_vars

\* both grants reaching user 1 on a resource (its own and its group's) were
\* deleted, and Can was asked for it
C12_Witness ==
    /\ authz.op = "Can" /\ ~authz.ok /\ authz.dbErr = NilErr
    /\ authz.subject = PolyID("i", 1) /\ authz.roles = <<RoleAdmin, RoleView>>
    /\ Len(grants) = 2
    /\ grants[1].subject = PolyID("i", 1) /\ grants[2].subject = PolyID("g", 1)
    /\ \A i \in 1..2 : grants[i].deleted_at # 0
                       /\ grants[i].resource = authz.resource

-----------------------------------------------------------------------------
(* Role guards *)

\* C13: without an authenticated identity RequireInfraRole fails with the
\* no-identity error and makes no grant lookup; otherwise it returns the
\* context's own transaction exactly when the identity holds one of the
\* roles on "infra", ErrNotAuthorized when it holds none, and the store's
\* error and no transaction when the lookup fails.
C13_RequireInfraRole ==
    authz.op = "RequireInfraRole" =>
        LET holds == Granting(PolyID("i", authz.ctx.User),
                              <<"i", "n", "f", "r", "a">>, authz.roles) # {}
        IN  /\ authz.ctx.User = 0 =>
                 /\ authz.err = <<"no active identity">>
                 /\ authz.txn = NilTxn /\ authz.queries = 0
            /\ (authz.ctx.User # 0 /\ authz.dbErr # NilErr) =>
                 /\ ErrorsIs(authz.err, authz.dbErr[1])
                 /\ ~ErrorsIs(authz.err, ErrNotAuthorized)
                 /\ authz.txn = NilTxn
            /\ (authz.ctx.User # 0 /\ authz.dbErr = NilErr) =>
                 /\ holds => authz.err = NilErr /\ authz.txn = authz.ctx.DBTxn
                 /\ ~holds => authz.err = <<ErrNotAuthorized>>
                              /\ authz.txn = NilTxn
            /\ authz.txn # NilTxn <=>
                 (authz.ctx.User # 0 /\ authz.dbErr = NilErr /\ holds)

\* user 1 passes on its group's admin grant and gets transaction 2 back
C13_Witness ==
    /\ authz.op = "RequireInfraRole"
    /\ authz.ctx = [DBTxn |-> 2, User |-> 1]
    /\ grants # <<>> /\ grants[1].subject = PolyID("g", 1)
    /\ authz.err = NilErr /\ authz.txn = 2

\* C14: when isResourceOwner says true the request's transaction is
\* returned without a role check, whatever roles the identity holds; when
\* it says false the outcome is that of RequireInfraRole; when it fails the
\* error is returned wrapped, with no role check and no transaction.
C14_OwnerBypass ==
    authz.op = "hasAuthorization" =>
        /\ authz.owner.err # NilErr =>
             /\ authz.err = <<"owner lookup">> \o authz.owner.err
             /\ authz.txn = NilTxn /\ authz.queries = 0
        /\ (authz.owner.err = NilErr /\ authz.owner.owner) =>
             /\ authz.err = NilErr /\ authz.txn = authz.ctx.DBTxn
             /\ authz.queries = 0
        /\ (authz.owner.err = NilErr /\ ~authz.owner.owner) =>
             LET r == RequireInfraRole(grants, authz.ctx, authz.roles,
                                       authz.dbErr)
             IN  /\ authz.err = r.err /\ authz.txn = r.txn
                 /\ authz.queries = r.queries

\* the owner, holding none of the roles, gets the transaction
C14_Witness ==
    /\ authz.op = "hasAuthorization"
    /\ authz.owner = [owner |-> TRUE, err |-> NilErr]
    /\ authz.ctx = [DBTxn |-> 1, User |-> 2]
    /\ authz.roles = <<RoleAdmin>>
    /\ Granting(PolyID("i", 2), ResourceInfraAPI, authz.roles) = {}
    /\ authz.txn = 1 /\ authz.err = NilErr

-----------------------------------------------------------------------------
(* Error shaping *)

\* the chain is the sentinel or wraps it, at any depth
WrapsNotAuthorized(e) == \E i \in 1..Len(e.chain) : e.chain[i] = ErrNotAuthorized

\* the chain ends in an AuthorizationError, which declares itself to be
\* ErrNotAuthorized
EndsInAuthorizationError(e) ==
    e.chain # <<>> /\ e.chain[Len(e.chain)] = AuthorizationErrorType

\* C15: HandleAuthErr returns AuthorizationError{resource, operation,
\* roles} for every error that is ErrNotAuthorized under errors.Is: the
\* sentinel itself, any wrapping of it, and an AuthorizationError (which
\* declares itself to be the sentinel); every other error, nil included, is
\* returned unchanged.
C15_HandleAuthErr ==
    authz.op = "HandleAuthErr" =>
        IF WrapsNotAuthorized(authz.errIn)
           \/ EndsInAuthorizationError(authz.errIn)
        THEN /\ authz.out.chain = <<AuthorizationErrorType>>
             /\ authz.out.ae = [Resource |-> authz.resource,
                                Operation |-> authz.operation,
                                RequiredRoles |-> authz.roles]
        ELSE authz.out = authz.errIn

\* the sentinel under two wrappings is rewritten
C15_Witness ==
    /\ authz.op = "HandleAuthErr"
    /\ authz.errIn.chain = <<"get user", "owner lookup", ErrNotAuthorized>>
    /\ authz.roles = <<RoleAdmin, RoleView>>
    /\ authz.out.chain = <<AuthorizationErrorType>>
    /\ authz.out.ae.RequiredRoles = <<RoleAdmin, RoleView>>

\* the grammatical list of the items: "X", "X or Y", "X, Y, or Z"
RECURSIVE CommaList(_)
CommaList(items) ==
    IF Len(items) = 1 THEN items[1]
    ELSE IF Len(items) = 2 THEN items[1] \o <<",", " ", "o", "r", " ">> \o items[2]
    ELSE items[1] \o <<",", " ">> \o CommaList(Tail(items))

JoinedRoles(items) ==
    IF Len(items) = 0 THEN <<>>
    ELSE IF Len(items) = 1 THEN items[1]
    ELSE IF Len(items) = 2 THEN items[1] \o <<" ", "o", "r", " ">> \o items[2]
    ELSE CommaList(items)

\* the message ends with the text
EndsWith(msg, text) ==
    /\ Len(msg) >= Len(text)
    /\ SubSeq(msg, Len(msg) - Len(text) + 1, Len(msg)) = text

\* C16: the message of an AuthorizationError ends with its roles joined
\* grammatically: "X" for one role, "X or Y" for two, "X, Y, or Z" for
\* three or more.
C16_RoleJoining ==
    (authz.op = "Error" /\ authz.errIn.ae.RequiredRoles # <<>>) =>
        EndsWith(authz.msg,
                 <<",", " ", "r", "e", "q", "u", "i", "r", "e", "s", " ", "r", "o", "l", "e", " ">> \o JoinedRoles(authz.errIn.ae.RequiredRoles))

\* for every length but two the joining is the grammatical one, and two
\* roles are written "X, or Y"
RoleJoiningButTwo ==
    authz.op = "Error" =>
        LET roles == authz.errIn.ae.RequiredRoles
        IN  /\ Len(roles) \notin {0, 2} =>
                 EndsWith(authz.msg, <<",", " ", "r", "e", "q", "u", "i", "r", "e", "s", " ", "r", "o", "l", "e", " ">> \o JoinedRoles(roles))
            /\ Len(roles) = 2 =>
                 EndsWith(authz.msg,
                          <<",", " ", "r", "e", "q", "u", "i", "r", "e", "s", " ", "r", "o", "l", "e", " ">> \o roles[1] \o <<",", " ", "o", "r", " ">> \o roles[2])

-----------------------------------------------------------------------------
(* Create: validation and naming *)

\* the errors of kind ValidationError that CreateAccessKey returns
CreateValidationErrors ==
    { <<"issusedFor is required">>, <<"providerID is required">>,
      <<"invalid key length">>, <<"invalid secret length">> }

\* the input breaks one of the four rules
InvalidCreate(a) ==
    \/ a.IssuedFor = 0
    \/ a.ProviderID = 0
    \/ a.KeyID # <<>> /\ Len(a.KeyID) # AccessKeyKeyLength
    \/ a.Secret # <<>> /\ Len(a.Secret) # AccessKeySecretLength

\* C17: in every state, Create of an input with issuedFor 0, providerID 0,
\* or a supplied key-id or secret of a wrong length fails with a validation
\* error and leaves the table as it is; an input that leaves key-id or
\* secret out gets the generated value, of the fixed length, and fails no
\* length check.
C17_CreateValidation ==
    /\ (ret.op = "Create" /\ ret.err \in CreateValidationErrors) =>
          ret.body = <<>> /\ Len(issued) = Len(access_keys)
    /\ \A a \in IssuanceCreates(now), rk \in RandomKeyIDs :
         LET r == CreateAccessKey(access_keys, 1, a, rk, SecretT, now)
         IN  /\ InvalidCreate(a) =>
                  /\ r.err \in CreateValidationErrors
                  /\ r.tbl = access_keys /\ r.body = <<>>
             /\ ~InvalidCreate(a) =>
                  /\ r.err \notin CreateValidationErrors
                  /\ a.KeyID = <<>> =>
                       r.key.KeyID = rk /\ Len(rk) = AccessKeyKeyLength
                  /\ a.Secret = <<>> =>
                       /\ r.key.Secret = SecretT
                       /\ Len(SecretT) = AccessKeySecretLength

\* a Create with a short key-id was refused after a key had been stored
C17_Witness ==
    /\ ret.op = "Create" /\ ret.err = <<"invalid key length">>
    /\ Len(access_keys) = 1
    /\ InvalidCreate([PlainKey EXCEPT !.KeyID = KeyShort])

\* the name Create gives a key that came without one
DefaultName(row) == IdentityName(row.issued_for) \o <<"-">> \o IDString(row.id)

\* the rows whose name Create made up (the names callers give hold no "-")
DefaultNamed ==
    { i \in 1..Len(access_keys) : ErrorsIs(access_keys[i].name, "-") }

\* C18: a key created without a name is named "{identity-name}-{id}" after
\* the identity it is issued for and its own new ID, so two such keys of one
\* identity have different names; when the identity does not exist Create
\* fails as not found and stores nothing.
C18_DefaultName ==
    /\ \A i \in 1..Len(access_keys) :
         /\ access_keys[i].name # <<>>
         /\ i \in DefaultNamed => access_keys[i].name = DefaultName(access_keys[i])
         /\ i \notin DefaultNamed => access_keys[i].name = <<"n">>
    /\ \A i, j \in DefaultNamed :
         i # j => access_keys[i].name # access_keys[j].name
    /\ \A a \in { x \in IssuanceCreates(now) : ~InvalidCreate(x) /\ x.Name = <<>> } :
         LET r == CreateAccessKey(access_keys, 1, a, KeyG, SecretT, now)
         IN  /\ a.IssuedFor \notin IdentityIDs =>
                  /\ ErrorsIs(r.err, ErrNotFound)
                  /\ r.tbl = access_keys /\ r.body = <<>>
             /\ (a.IssuedFor \in IdentityIDs /\ r.err = NilErr) =>
                  r.key.Name = IdentityName(a.IssuedFor) \o <<"-">>
                               \o IDString(r.key.ID)
    /\ (ret.op = "Create" /\ ErrorsIs(ret.err, ErrNotFound)) =>
         Len(issued) = Len(access_keys)

\* two keys of identity 1 created without a name
C18_Witness ==
    /\ Len(access_keys) = 2 /\ DefaultNamed = {1, 2}
    /\ access_keys[1].issued_for = access_keys[2].issued_for
    /\ access_keys[1].name # access_keys[2].name

-----------------------------------------------------------------------------
(* Validate: the credential string *)

HasDot(c) == \E i \in 1..Len(c) : c[i] = "."

\* the position of the first dot of a string that has one
FirstDot(c) == CHOOSE i \in 1..Len(c) :
                   c[i] = "." /\ \A j \in 1..(i - 1) : c[j] # "."

\* the live rows a credential names and unlocks when it is split at p
Unlocks(c, p) ==
    { i \in LiveKeys :
        /\ access_keys[i].key_id = SubSeq(c, 1, p - 1)
        /\ access_keys[i].secret_checksum
             = secretChecksum(SubSeq(c, p + 1, Len(c))) }

FormatError == <<"invalid access key format">>

\* C19: Validate takes what precedes the first dot of the credential as
\* the key-id and all that follows it, dots included, as the secret; a
\* credential without a dot fails with the format error whatever the table
\* holds, returns no key and writes nothing.
C19_SplitAtFirstDot ==
    /\ \A c \in FormatCredentials :
         LET r == ValidateAccessKey(access_keys, c, now)
         IN  /\ ~HasDot(c) =>
                  r.err = FormatError /\ r.key = ZeroAccessKey
                  /\ r.tbl = access_keys
             /\ HasDot(c) =>
                  /\ r.err # FormatError
                  /\ r.err = NilErr <=> Unlocks(c, FirstDot(c)) # {}
                  /\ r.err = NilErr =>
                       r.key.KeyID = SubSeq(c, 1, FirstDot(c) - 1)
    /\ (ret.op = "Validate" /\ ~HasDot(ret.arg)) => ret.err = FormatError

\* the credential of a key whose secret holds a dot was accepted
C19_Witness ==
    /\ ret.op = "Validate" /\ ret.err = NilErr
    /\ ret.arg = KeyA \o <<".">> \o SecretDot
    /\ ret.key.KeyID = KeyA

-----------------------------------------------------------------------------
(* Validate: secret and lookup *)

InvalidSecretError == <<"access key invalid secret">>

\* the secrets a caller may present
PresentedSecrets == {SecretS, SecretT, SecretShort, <<>>}

\* C20: in every state of a key (before and after ExpiresAt, with and
\* without an extension deadline, before and after it) Validate of its
\* key-id with a secret whose digest differs from the stored checksum fails
\* with the invalid-secret error and writes nothing; Validate of a key-id
\* that no key has fails with an error that wraps the not-found error.
C20_WrongSecretUnknownKey ==
    /\ \A i \in LiveKeys, x \in PresentedSecrets :
         secretChecksum(x) # access_keys[i].secret_checksum =>
             LET r == ValidateAccessKey(access_keys,
                        access_keys[i].key_id \o <<".">> \o x, now)
             IN  r.err = InvalidSecretError /\ r.tbl = access_keys
                 /\ r.key = ZeroAccessKey
    /\ \A k \in {KeyA, KeyG, KeyShort, <<>>}, x \in PresentedSecrets :
         (\A i \in LiveKeys : access_keys[i].key_id # k) =>
             LET r == ValidateAccessKey(access_keys, k \o <<".">> \o x, now)
             IN  /\ ErrorsIs(r.err, ErrNotFound) /\ Len(r.err) > 1
                 /\ r.tbl = access_keys
    /\ (ret.op = "Validate" /\ ret.err = InvalidSecretError) =>
         \E i \in LiveKeys :
            /\ access_keys[i].key_id = Cut(ret.arg, ".").before
            /\ access_keys[i].secret_checksum
                 # secretChecksum(Cut(ret.arg, ".").after)

\* a wrong secret was refused for a key past its expiry and its deadline
C20_Witness ==
    /\ ret.op = "Validate" /\ ret.err = InvalidSecretError
    /\ \E i \in LiveKeys :
         /\ access_keys[i].key_id = Cut(ret.arg, ".").before
         /\ now > access_keys[i].expires_at
         /\ access_keys[i].extension_deadline # 0
         /\ now > access_keys[i].extension_deadline

-----------------------------------------------------------------------------
(* Delete *)

NoSelector == [ByID |-> 0, ByUserID |-> 0, ByProviderID |-> 0]

DeleteRequiresID == <<"DeleteAccessKeys requires an ID to delete">>

Tenants == {1, 2}

\* Delete without a selector fails and changes no row, in either tenant
NoSelectorFails ==
    \A org \in Tenants :
        LET r == DeleteAccessKeys(access_keys, org, NoSelector, now)
        IN  r.err = DeleteRequiresID /\ r.tbl = access_keys

\* a Delete that returns the error leaves the table as it was
FailedDeleteKeeps ==
    (ret'.op = "Delete" /\ ret'.err # NilErr) =>
        ret'.err = DeleteRequiresID /\ access_keys' = access_keys

\* C21: Delete with key ID, owning identity and issuing provider all zero
\* fails with the validation error and leaves every record unchanged.
C21_DeleteNeedsSelector == []NoSelectorFails /\ [][FailedDeleteKeeps]_vars

\* a Delete was refused while live keys of both tenants were stored
C21_Witness ==
    /\ ret.op = "Delete" /\ ret.err = DeleteRequiresID
    /\ Len(access_keys) = 2
    /\ \A i \in 1..2 : access_keys[i].deleted_at = 0
                       /\ access_keys[i].organization_id = i

\* the options that name exactly one selector
OneSelector ==
    { o \in RevocationDeletes :
        Cardinality({ f \in {"ByID", "ByUserID", "ByProviderID"} : o[f] # 0 }) = 1 }

\* row matches the one selector of opts
MatchesSelector(row, opts) ==
    \/ opts.ByID # 0 /\ row.id = opts.ByID
    \/ opts.ByUserID # 0 /\ row.issued_for = opts.ByUserID
    \/ opts.ByProviderID # 0 /\ row.provider_id = opts.ByProviderID

\* Delete in tenant org stamps exactly the matching rows of org
DeleteScoped ==
    \A org \in Tenants, opts \in OneSelector :
        LET r == DeleteAccessKeys(access_keys, org, opts, now)
        IN  /\ r.err = NilErr
            /\ Len(r.tbl) = Len(access_keys)
            /\ \A i \in 1..Len(access_keys) :
                 IF access_keys[i].organization_id = org
                    /\ MatchesSelector(access_keys[i], opts)
                 THEN r.tbl[i] = [access_keys[i] EXCEPT !.deleted_at = now]
                 ELSE r.tbl[i] = access_keys[i]

\* no step removes a row: every row is still there, with its id and tenant
RowsStay ==
    /\ Len(access_keys') >= Len(access_keys)
    /\ \A i \in 1..Len(access_keys) :
         /\ access_keys'[i].id = access_keys[i].id
         /\ access_keys'[i].organization_id = access_keys[i].organization_id

\* C22: a Delete run in tenant T sets deleted_at on exactly the keys of T
\* that match its selector; keys of another tenant with the same owner or
\* provider and the other keys of T stay as they are, and no row is removed.
C22_DeleteTenantScoped == []DeleteScoped /\ [][RowsStay]_vars

\* of two keys of one owner and provider in two tenants, one is
\* tombstoned and the other is live
C22_Witness ==
    /\ ret.op = "Delete" /\ ret.err = NilErr
    /\ Len(access_keys) = 2
    /\ access_keys[1].organization_id # access_keys[2].organization_id
    /\ access_keys[1].issued_for = access_keys[2].issued_for
    /\ access_keys[1].provider_id = access_keys[2].provider_id
    /\ access_keys[1].deleted_at # 0 /\ access_keys[2].deleted_at = 0

-----------------------------------------------------------------------------
(* Wrapped handlers *)

\* C23: when the handler succeeds the status of the response depends on
\* the method alone: 201 for POST, 204 for DELETE, 200 for every other.
C23_StatusByMethod ==
    (resp.served = 1 /\ resp.called /\ resp.err = NilErr) =>
        /\ resp.route.method = "POST" => resp.status = 201
        /\ resp.route.method = "DELETE" => resp.status = 204
        /\ resp.route.method \notin {"POST", "DELETE"} => resp.status = 200
        /\ resp.sent = <<[by |-> "JSON", status |-> resp.status]>>

\* a DELETE with a body succeeded
C23_Witness ==
    /\ resp.served = 1 /\ resp.called /\ resp.err = NilErr
    /\ resp.route.method = "DELETE" /\ resp.request.body = "json"
    /\ resp.status = 204

\* the request decodes: path parameters, query and body
Decodes(request) ==
    request.uri /\ request.query /\ request.body # "malformed"

\* C24: the wrapped handler is called only for a request that decoded (and
\* passed validation); a request that does not decode is refused with
\* BadRequest and the handler is not called; when the handler fails an error
\* response is sent and no success response; every request gets exactly
\* one response.
C24_WrappingContract ==
    resp.served = 1 =>
        /\ resp.called => Decodes(resp.request) /\ resp.request.valid
        /\ ~Decodes(resp.request) =>
             /\ ~resp.called
             /\ ErrorsIs(resp.err, ErrBadRequest)
             /\ resp.sent[1].by = "sendAPIError"
        /\ (resp.called /\ resp.outcome.handler # NilErr) =>
             /\ resp.err = resp.outcome.handler
             /\ \A i \in 1..Len(resp.sent) : resp.sent[i].by = "sendAPIError"
        /\ Len(resp.sent) = 1
        /\ resp.called <=> resp.outcome.bind = NilErr

\* a malformed body was refused; the handler would have succeeded
C24_Witness ==
    /\ resp.served = 1 /\ ~resp.called
    /\ resp.request = [uri |-> TRUE, query |-> TRUE, body |-> "malformed",
                       valid |-> TRUE]
    /\ resp.outcome.handler = NilErr
    /\ ErrorsIs(resp.err, ErrBadRequest)
    /\ Len(resp.sent) = 1 /\ resp.sent[1].by = "sendAPIError"

-----------------------------------------------------------------------------
(* Rewrite hooks *)

\* a migration registered under name serves the routes of method
NamesMethod(name, method) ==
    \/ name = method
    \/ <<name, method>> \in { <<"get", "GET">>, <<"post", "POST">> }

\* the positions in API.migrations of the migrations registered for
\* method and exactly path
RegisteredFor(method, path) ==
    { i \in 1..Len(migrations) :
        /\ NamesMethod(migrations[i].method, method)
        /\ migrations[i].path = path }

\* the hooks migration i carries
HooksOf(i) ==
    {migrations[i].requestRewrite, migrations[i].responseRewrite} \ {NoHook}

\* hooks holds each hook of the migrations registered for (method, path)
\* once and no other hook, those of an earlier migration first
CollectedInOrder(hooks, method, path) ==
    /\ {hooks[k] : k \in 1..Len(hooks)} =
           UNION {HooksOf(i) : i \in RegisteredFor(method, path)}
    /\ \A j, k \in 1..Len(hooks) :
           j < k => /\ hooks[j] # hooks[k]
                    /\ hooks[j].id <= hooks[k].id

\* C25: the hooks collected for a (method, path) are those of exactly the
\* migrations registered for that method and that exact path, each once,
\* in the registration order of the migrations
C25_RewritesInRegistrationOrder ==
    /\ \A method \in RouteMethods, path \in MigrationPaths :
           CollectedInOrder(includeRewritesFor(migrations, method, path),
                            method, path)
    /\ rewrites.called => CollectedInOrder(rewrites.hooks, rewrites.method, rewrites.path)

\* two migrations on one path compose, a third on another path is left out
C25_Witness ==
    /\ rewrites.called
    /\ Len(migrations) = 3
    /\ RegisteredFor(rewrites.method, rewrites.path) = {1, 3}
    /\ migrations[2].method = "GET"
    /\ rewrites.method = "GET"
    /\ migrations[2].requestRewrite # NoHook
    /\ Len(rewrites.hooks) = 3
    /\ rewrites.hooks[1].id = 1
    /\ rewrites.hooks[3].id = 3

-----------------------------------------------------------------------------
(* The extension deadline *)

\* C26: the stored ExtensionDeadline of a key is never later than its
\* ExpiresAt, after any sequence of Create and successful Validate calls.
C26_DeadlineBoundedByExpiry ==
    \A i \in 1..Len(access_keys) :
        access_keys[i].extension_deadline <= access_keys[i].expires_at

\* every key is created with its deadline not later than its expiry
CreatedWithinExpiry ==
    (ret.op = "Create" /\ ret.err = NilErr) =>
        access_keys[Len(access_keys)].extension_deadline
            <= access_keys[Len(access_keys)].expires_at

\* a step is a successful Validate of key i, whose stored deadline is set
SlidesKey(i) ==
    /\ ret'.op = "Validate" /\ ret'.err = NilErr
    /\ ret'.key.ID = access_keys[i].id
    /\ access_keys[i].extension_deadline # 0

\* C27: a successful Validate of a key with a non-zero ExtensionDeadline
\* never stores a deadline earlier than the one stored before the call,
\* for every Extension and every deadline set at creation.
C27_DeadlineSlidesForward ==
    [][ \A i \in 1..Len(access_keys) :
          SlidesKey(i) =>
            access_keys'[i].extension_deadline
                >= access_keys[i].extension_deadline ]_vars

-----------------------------------------------------------------------------
(* Validate: what it writes *)

\* the errors ValidateAccessKey returns before it reaches SaveAccessKey
NotFoundError ==
    <<"could not get access key from database, it may not exist", ErrNotFound>>

\* every credential, in the state the table is in, is either accepted or
\* refused without a write
FailureWritesNothing ==
    \A c \in Credentials :
        LET r == ValidateAccessKey(access_keys, c, now)
        IN  r.err # NilErr =>
              /\ r.tbl = access_keys
              /\ r.err \in {FormatError, NotFoundError, InvalidSecretError,
                            ErrAccessKeyExpired, ErrAccessKeyDeadlineExceeded}

\* a step that is a Validate returning an error changes no row
FailedValidateKeeps ==
    (ret'.op = "Validate" /\ ret'.err # NilErr) => access_keys' = access_keys

\* C29: every Validate that returns an error (format, not found, invalid
\* secret, expired, deadline exceeded) leaves the stored records unchanged;
\* a failed validation never slides ExtensionDeadline.
C29_FailedValidateWritesNothing ==
    []FailureWritesNothing /\ [][FailedValidateKeeps]_vars

\* a Validate has failed with the deadline error on a live key before its
\* expiry, whose deadline a successful call would have slid
C29_Witness ==
    /\ ret.op = "Validate"
    /\ ret.err = ErrAccessKeyDeadlineExceeded
    /\ \E i \in LiveKeys :
         /\ ret.arg = issued[i]
         /\ now <= access_keys[i].expires_at
         /\ access_keys[i].extension = 1
         /\ access_keys[i].extension_deadline < now

\* row after differs from row before in extension_deadline at most
OnlyDeadlineDiffers(before, after) ==
    \A col \in Columns \ {"extension_deadline"} : after[col] = before[col]

\* a step that is a successful Validate changes no column but
\* extension_deadline, and no column at all of a key with no deadline
SuccessfulValidateFrame ==
    (ret'.op = "Validate" /\ ret'.err = NilErr) =>
        /\ Len(access_keys') = Len(access_keys)
        /\ \A i \in 1..Len(access_keys) :
             /\ OnlyDeadlineDiffers(access_keys[i], access_keys'[i])
             /\ access_keys[i].extension_deadline = 0 =>
                    access_keys'[i] = access_keys[i]

\* a live key with no deadline is accepted up to its expiry, without a write
NoDeadlineValidUntilExpiry ==
    \A i \in LiveKeys :
        (access_keys[i].extension_deadline = 0
            /\ now <= access_keys[i].expires_at) =>
          LET r == ValidateAccessKey(access_keys, issued[i], now)
          IN  r.err = NilErr /\ r.tbl = access_keys

-----------------------------------------------------------------------------
(* Revocation during a validation *)

\* a step clears no tombstone
TombstoneKept ==
    \A i \in 1..Len(access_keys) :
        access_keys[i].deleted_at # 0 => access_keys'[i].deleted_at # 0

\* C28: when Delete tombstones a key between a Validate's read of the key
\* and its write-back of the slid deadline, the write-back of the stale
\* record does not clear deleted_at: a tombstoned key stays tombstoned.
C28_WriteBackKeepsTombstone == [][TombstoneKept]_vars

\* a task holds a record it read before the key was tombstoned
StaleRecordHeld ==
    \E p \in Tasks :
        /\ pc[p] = "save"
        /\ held[p].DeletedAt = 0
        /\ access_keys[held[p].ID].deleted_at # 0

-----------------------------------------------------------------------------
(* Validate: the order of the checks *)

\* the live rows whose key-id precedes the first dot of credential c
Named(c) ==
    { i \in LiveKeys : access_keys[i].key_id = SubSeq(c, 1, FirstDot(c) - 1) }

\* the checks of a credential, in the order format, lookup, secret,
\* ExpiresAt, ExtensionDeadline: which of them the credential fails now
FailsCheck(c, check) ==
    CASE check = "format" -> ~HasDot(c)
      [] check = "lookup" -> Named(c) = {}
      [] check = "secret" ->
            \A i \in Named(c) :
                access_keys[i].secret_checksum
                    # secretChecksum(SubSeq(c, FirstDot(c) + 1, Len(c)))
      [] check = "expiry" ->
            \A i \in Named(c) : now > access_keys[i].expires_at
      [] check = "deadline" ->
            \A i \in Named(c) : /\ access_keys[i].extension_deadline # 0
                                /\ now > access_keys[i].extension_deadline

CheckOrder == <<"format", "lookup", "secret", "expiry", "deadline">>

\* what each check reports
CheckError(check) ==
    CASE check = "format" -> FormatError
      [] check = "lookup" -> NotFoundError
      [] check = "secret" -> InvalidSecretError
      [] check = "expiry" -> ErrAccessKeyExpired
      [] check = "deadline" -> ErrAccessKeyDeadlineExceeded

\* the first check of the order that credential c fails (0: none)
RECURSIVE FirstFailing(_, _)
FirstFailing(c, n) ==
    IF n > Len(CheckOrder) THEN 0
    ELSE IF FailsCheck(c, CheckOrder[n]) THEN n
    ELSE FirstFailing(c, n + 1)

\* C31: Validate reports the first failing check in the order format,
\* lookup, secret, ExpiresAt, ExtensionDeadline: a wrong secret on a key
\* past its expiry or deadline yields the invalid-secret error and no
\* error that is the expired error, and a key past both ExpiresAt and
\* ExtensionDeadline yields the expired error, not the deadline error.
C31_FirstFailingCheckReported ==
    /\ \A c \in Credentials :
         LET r == ValidateAccessKey(access_keys, c, now)
             n == FirstFailing(c, 1)
         IN  /\ r.err = IF n = 0 THEN NilErr ELSE CheckError(CheckOrder[n])
             /\ (n # 0 /\ n <= 3) =>
                    ~ErrorsIs(r.err, ErrAccessKeyExpired[1])
             /\ n = 4 => r.err # ErrAccessKeyDeadlineExceeded
    /\ (ret.op = "Validate" /\ ret.err = ErrAccessKeyDeadlineExceeded) =>
         \E i \in LiveKeys : /\ ret.arg = issued[i]
                             /\ now <= access_keys[i].expires_at

\* the right credential of a key past both its expiry and its extension
\* deadline was refused with the expired error
C31_Witness ==
    /\ ret.op = "Validate" /\ ret.err = ErrAccessKeyExpired
    /\ \E i \in LiveKeys :
         /\ ret.arg = issued[i]
         /\ now > access_keys[i].expires_at
         /\ access_keys[i].extension_deadline # 0
         /\ now > access_keys[i].extension_deadline

-----------------------------------------------------------------------------
(* Validate: a lapsed key stays lapsed *)

ExpiredErrors == {ErrAccessKeyExpired, ErrAccessKeyDeadlineExceeded}

\* the last call was a Validate of key i that failed because the key had
\* expired or its extension deadline had passed
LapseReported(i) ==
    /\ i <= Len(access_keys)
    /\ ret.op = "Validate"
    /\ ret.arg = issued[i]
    /\ ret.err \in ExpiredErrors

\* no credential is accepted as key i now, and the last call did not
\* accept key i
NotAccepted(i) ==
    /\ \A c \in LapseCredentials :
         LET r == ValidateAccessKey(access_keys, c, now)
         IN  ~(r.err = NilErr /\ r.key.ID = i)
    /\ ~(ret.op = "Validate" /\ ret.err = NilErr /\ ret.key.ID = i)

-----------------------------------------------------------------------------
(* Delete: several selectors *)

\* the options that set more than one selector
SeveralSelectors ==
    { o \in RevocationDeletes :
        Cardinality({ f \in {"ByID", "ByUserID", "ByProviderID"} : o[f] # 0 }) > 1 }

\* row matches the selector of highest priority that opts sets, in the
\* order key id, owning identity, issuing provider
MatchesFirstSelector(row, opts) ==
    \/ opts.ByID # 0 /\ row.id = opts.ByID
    \/ opts.ByID = 0 /\ opts.ByUserID # 0 /\ row.issued_for = opts.ByUserID
    \/ opts.ByID = 0 /\ opts.ByUserID = 0 /\ opts.ByProviderID # 0
         /\ row.provider_id = opts.ByProviderID

\* Delete with several selectors stamps the rows of the tenant that match
\* the first of them and leaves every other row as it is
FirstSelectorOnly ==
    \A org \in Tenants, opts \in SeveralSelectors :
        LET r == DeleteAccessKeys(access_keys, org, opts, now)
        IN  /\ r.err = NilErr
            /\ Len(r.tbl) = Len(access_keys)
            /\ \A i \in 1..Len(access_keys) :
                 IF access_keys[i].organization_id = org
                    /\ MatchesFirstSelector(access_keys[i], opts)
                 THEN r.tbl[i] = [access_keys[i] EXCEPT !.deleted_at = now]
                 ELSE r.tbl[i] = access_keys[i]

\* a step that is a Delete with several selectors changes no row that does
\* not match the first of them
LowerPriorityUntouched ==
    (ret'.op = "Delete" /\ ret'.arg \in SeveralSelectors) =>
        \A i \in 1..Len(access_keys) :
            ~MatchesFirstSelector(access_keys[i], ret'.arg) =>
                access_keys'[i] = access_keys[i]

\* C33: when more than one of key id, owning identity and issuing provider
\* is set, Delete uses only the first that is set, in this order; keys that
\* match only a selector of lower priority are left unchanged.
C33_FirstSelectorWins == []FirstSelectorOnly /\ [][LowerPriorityUntouched]_vars

\* a Delete by key id 1 that also named the owner and the provider of
\* key 2 has tombstoned key 1 and left key 2 live
C33_Witness ==
    /\ ret.op = "Delete" /\ ret.err = NilErr
    /\ Len(access_keys) = 2
    /\ ret.arg.ByID = 1
    /\ ret.arg.ByUserID = access_keys[2].issued_for
    /\ ret.arg.ByProviderID = access_keys[2].provider_id
    /\ access_keys[1].organization_id = access_keys[2].organization_id
    /\ access_keys[1].issued_for # access_keys[2].issued_for
    /\ access_keys[1].deleted_at # 0 /\ access_keys[2].deleted_at = 0

-----------------------------------------------------------------------------
(* Dispatch: one handler per request *)

\* the one handler a request to route key declaring version v is for
HandlerFor(key, v) ==
    IF handlerForVersion(versions[key], v) # NoHandler
    THEN handlerForVersion(versions[key], v)
    ELSE LatestHandler

\* every request with a version that parses is dispatched to one handler
OneHandlerInvoked ==
    /\ \A key \in RouteKeys, v \in DeclaredVersions, o \in Outcomes :
         LET r == RouteHandler(versions, key, VersionString(v), o.bind,
                               o.handler)
         IN  r.invoked = <<HandlerFor(key, v)>>
    /\ (resp.served = 1 /\ versionFromHeader(resp.header).err = NilErr) =>
         /\ Len(resp.invoked) = 1
         /\ resp.invoked[1] =
              HandlerFor(resp.route, versionFromHeader(resp.header).version)
         /\ resp.invoked[1].kind \in {"versioned", "latest"}

\* a step leaves the version registry as it is
RegistryRead == versions' = versions

\* C34: a request to a registered route with a version that parses invokes
\* exactly one handler, the versioned handler when handlerForVersion
\* returns one and the latest handler otherwise, never both and never
\* none; dispatch does not modify the version registry.
C34_ExactlyOneHandler == []OneHandlerInvoked /\ [][RegistryRead]_vars

\* a request declaring a version below one a handler is registered for
\* was dispatched to that versioned handler alone, on a route with
\* several versioned handlers
C34_Witness ==
    /\ resp.served = 1
    /\ resp.declared # NoVersion
    /\ Len(versions[resp.route]) >= 2
    /\ Len(resp.invoked) = 1
    /\ resp.invoked[1].kind = "versioned"
    /\ SemverGreaterThan(resp.invoked[1].version, resp.declared)

====
